---- MODULE Spec2Model ----
(***************************************************************************)
(* Resilient data-access layer of the stock service: the three-state       *)
(* circuit breaker (internal/circuitbreaker), the TTL cache                *)
(* (internal/cache) and the stock client that composes them                *)
(* (internal/stock, Client.GetStockData).                                  *)
(*                                                                         *)
(* Time is an integer clock `now`; it advances by Tick and by the duration *)
(* of a wrapped operation.  Strings are sequences of one-character         *)
(* strings, so that the cache key is built the way fmt.Sprintf builds it.  *)
(***************************************************************************)
EXTENDS Integers, Sequences, FiniteSets, TLC

\* ---------------------------------------------------------------- bounds
MaxFailureThreshold == 2
MaxSuccessThreshold == 2
MaxTimeout == 2
MaxTTL == 1
MaxTime == 3
MaxOpDur == 1
\* invocations of Call in the breaker's specification
MaxCalls == 4
\* invocations of GetStockData in the client's specification
MaxRequests == 3
\* largest ttl of a cache driven directly
MaxCacheTTL == 2
\* Set / Get / Delete operations issued on a cache driven directly
MaxCacheOps == 4
\* goroutines calling concurrently
NumProcs == 3
\* goroutines calling GetStockData concurrently
NumClients == 2

\* ------------------------------------------------------- circuit breaker
StateClosed == 0
StateOpen == 1
StateHalfOpen == 2

ErrCircuitBreakerOpen == "circuit breaker is open"

\* the nil error
Nil == "nil"

\* a nil value: the nil interface{} of a failed Cache.Get, a nil *StockData
NilData == [type |-> "nil", Symbol |-> <<>>, Average |-> 0]

\* time.Time{} : the zero time lies before every instant of the clock, by
\* more than any timeout
ZeroTime == 0 - (MaxTime + MaxTimeout + 2)

NewCircuitBreaker(ft, st, to) ==
  [failureThreshold |-> ft, successThreshold |-> st, timeout |-> to,
   failureCount |-> 0, successCount |-> 0,
   lastFailureTime |-> ZeroTime, state |-> StateClosed]

\* time.Since(t) evaluated when the clock shows `clock`
Since(t, clock) == clock - t

\* mutant: the transition to HalfOpen is taken from every state
TimeoutElapsedAnyState(c, clock) ==
  Since(c.lastFailureTime, clock) > c.timeout

\* mutant: the timeout comparison made inclusive
TimeoutElapsedInclusive(c, clock) ==
  c.state = StateOpen /\ Since(c.lastFailureTime, clock) >= c.timeout

\* the condition of the Open -> HalfOpen transition
TimeoutElapsed(c, clock) ==
  c.state = StateOpen /\ Since(c.lastFailureTime, clock) > c.timeout

\* mutant: the counters are not reset on entering HalfOpen
CheckHalfOpenKeepCounts(c, clock) ==
  IF TimeoutElapsed(c, clock)
  THEN [c EXCEPT !.state = StateHalfOpen]
  ELSE c

\* mutant: entering HalfOpen resets successCount only
CheckHalfOpenKeepFailures(c, clock) ==
  IF TimeoutElapsed(c, clock)
  THEN [c EXCEPT !.state = StateHalfOpen, !.successCount = 0]
  ELSE c

\* the lazy Open -> HalfOpen transition at the top of Call
CheckHalfOpen(c, clock) ==
  IF TimeoutElapsed(c, clock)
  THEN [c EXCEPT !.state = StateHalfOpen, !.failureCount = 0, !.successCount = 0]
  ELSE c

\* mutant: closing from HalfOpen leaves the counters as they are
CallHalfOpenNoReset(c, err, t) ==
  IF err # Nil
  THEN LET c1 == [c EXCEPT !.failureCount = c.failureCount + 1]
       IN IF c1.failureCount >= c1.failureThreshold
          THEN [c1 EXCEPT !.state = StateOpen, !.lastFailureTime = t]
          ELSE c1
  ELSE LET c1 == [c EXCEPT !.successCount = c.successCount + 1]
       IN IF c1.successCount >= c1.successThreshold
          THEN [c1 EXCEPT !.state = StateClosed]
          ELSE c1

\* mutant: re-opening from HalfOpen keeps the time of the first opening
CallHalfOpenStaleTime(c, err, t) ==
  IF err # Nil
  THEN LET c1 == [c EXCEPT !.failureCount = c.failureCount + 1]
       IN IF c1.failureCount >= c1.failureThreshold
          THEN [c1 EXCEPT !.state = StateOpen]
          ELSE c1
  ELSE LET c1 == [c EXCEPT !.successCount = c.successCount + 1]
       IN IF c1.successCount >= c1.successThreshold
          THEN [c1 EXCEPT !.state = StateClosed, !.failureCount = 0, !.successCount = 0]
          ELSE c1

\* case StateHalfOpen: bookkeeping after fn() returned err at time t
\* a HalfOpen branch that never re-opens the breaker
CallHalfOpenNeverReopens(c, err, t) ==
  IF err # Nil
  THEN [c EXCEPT !.failureCount = c.failureCount + 1]
  ELSE IF c.successCount + 1 >= c.successThreshold
       THEN [c EXCEPT !.state = StateClosed, !.failureCount = 0,
                      !.successCount = 0]
       ELSE [c EXCEPT !.successCount = c.successCount + 1]

CallHalfOpen(c, err, t) ==
  IF err # Nil
  THEN LET c1 == [c EXCEPT !.failureCount = c.failureCount + 1]
       IN IF c1.failureCount >= c1.failureThreshold
          THEN [c1 EXCEPT !.state = StateOpen, !.lastFailureTime = t]
          ELSE c1
  ELSE LET c1 == [c EXCEPT !.successCount = c.successCount + 1]
       IN IF c1.successCount >= c1.successThreshold
          THEN [c1 EXCEPT !.state = StateClosed, !.failureCount = 0, !.successCount = 0]
          ELSE c1

\* mutant: the breaker opens one failure late
CallClosedOffByOne(c, err, t) ==
  IF err # Nil
  THEN LET c1 == [c EXCEPT !.failureCount = c.failureCount + 1, !.successCount = 0]
       IN IF c1.failureCount > c1.failureThreshold
          THEN [c1 EXCEPT !.state = StateOpen, !.lastFailureTime = t]
          ELSE c1
  ELSE [c EXCEPT !.failureCount = 0, !.successCount = 0]

\* mutant: a success in Closed leaves failureCount as it is
CallClosedKeepsFailures(c, err, t) ==
  IF err # Nil
  THEN LET c1 == [c EXCEPT !.failureCount = c.failureCount + 1, !.successCount = 0]
       IN IF c1.failureCount >= c1.failureThreshold
          THEN [c1 EXCEPT !.state = StateOpen, !.lastFailureTime = t]
          ELSE c1
  ELSE [c EXCEPT !.successCount = 0]

\* case StateClosed: bookkeeping after fn() returned err at time t
CallClosed(c, err, t) ==
  IF err # Nil
  THEN LET c1 == [c EXCEPT !.failureCount = c.failureCount + 1, !.successCount = 0]
       IN IF c1.failureCount >= c1.failureThreshold
          THEN [c1 EXCEPT !.state = StateOpen, !.lastFailureTime = t]
          ELSE c1
  ELSE [c EXCEPT !.failureCount = 0, !.successCount = 0]

ErrCircuitBreakerHalfOpen == "circuit breaker is half-open"

\* mutant: a failed probe is reported as ErrCircuitBreakerHalfOpen
CallResultMaskProbeError(c, fn, clock) ==
  LET c1 == CheckHalfOpen(c, clock)
      t  == clock + fn.dur
  IN CASE c1.state = StateOpen ->
            [cb |-> c1, ret |-> ErrCircuitBreakerOpen, invoked |-> 0,
             now |-> clock, mid |-> c1]
       [] c1.state = StateHalfOpen ->
            [cb |-> CallHalfOpen(c1, fn.err, t),
             ret |-> IF fn.err # Nil THEN ErrCircuitBreakerHalfOpen ELSE Nil,
             invoked |-> 1, now |-> t, mid |-> c1]
       [] c1.state = StateClosed ->
            [cb |-> CallClosed(c1, fn.err, t), ret |-> fn.err, invoked |-> 1,
             now |-> t, mid |-> c1]
       [] OTHER ->
            [cb |-> c1, ret |-> Nil, invoked |-> 0, now |-> clock, mid |-> c1]

\* mutant: a rejected Call counts as a failure and restarts the timeout
CallResultRejectionRestartsTimeout(c, fn, clock) ==
  LET c1 == CheckHalfOpen(c, clock)
      t  == clock + fn.dur
  IN CASE c1.state = StateOpen ->
            [cb |-> [c1 EXCEPT !.lastFailureTime = clock],
             ret |-> ErrCircuitBreakerOpen, invoked |-> 0,
             now |-> clock, mid |-> c1]
       [] c1.state = StateHalfOpen ->
            [cb |-> CallHalfOpen(c1, fn.err, t), ret |-> fn.err, invoked |-> 1,
             now |-> t, mid |-> c1]
       [] c1.state = StateClosed ->
            [cb |-> CallClosed(c1, fn.err, t), ret |-> fn.err, invoked |-> 1,
             now |-> t, mid |-> c1]
       [] OTHER ->
            [cb |-> c1, ret |-> Nil, invoked |-> 0, now |-> clock, mid |-> c1]

\* CircuitBreaker.Call(fn) entered at time `clock`; fn is the outcome the
\* wrapped operation has when it is invoked: [err, dur].  The result is the
\* breaker after the call, the error returned, how often fn was invoked and
\* the time at which Call returns; mid is the breaker after the lazy
\* transition, at the switch statement.
CallResult(c, fn, clock) ==
  LET c1 == CheckHalfOpen(c, clock)
      t  == clock + fn.dur
  IN CASE c1.state = StateOpen ->
            [cb |-> c1, ret |-> ErrCircuitBreakerOpen, invoked |-> 0,
             now |-> clock, mid |-> c1]
       [] c1.state = StateHalfOpen ->
            [cb |-> CallHalfOpen(c1, fn.err, t), ret |-> fn.err, invoked |-> 1,
             now |-> t, mid |-> c1]
       [] c1.state = StateClosed ->
            [cb |-> CallClosed(c1, fn.err, t), ret |-> fn.err, invoked |-> 1,
             now |-> t, mid |-> c1]
       [] OTHER ->
            [cb |-> c1, ret |-> Nil, invoked |-> 0, now |-> clock, mid |-> c1]

\* mutant: the mutex admits a goroutine while another holds it
CanLockAlways(holders) == TRUE

\* cb.mu.Lock() returns only while no goroutine holds the mutex
CanLock(holders) == holders = {}

GetState(c) == c.state

GetMetrics(c) == <<c.state, c.failureCount, c.successCount>>

\* mutant: GetState performs the pending transition to HalfOpen
GetStateResultLazy(c, clock) ==
  [cb |-> CheckHalfOpen(c, clock), ret |-> GetState(CheckHalfOpen(c, clock))]

\* cb.GetState() at time `clock`: the breaker it leaves and the state returned
GetStateResult(c, clock) == [cb |-> c, ret |-> GetState(c)]

\* cb.GetMetrics() at time `clock`: the breaker it leaves and the triple returned
GetMetricsResult(c, clock) == [cb |-> c, ret |-> GetMetrics(c)]

\* ------------------------------------------------------------- TTL cache
\* an empty Go map
EmptyMap == [k \in {} |-> Nil]

NewCache(ttl) == [items |-> EmptyMap, ttl |-> ttl]

\* mutant: an entry is still visible at its expiration instant
CacheGetInclusive(c, key, clock) ==
  IF key \in DOMAIN c.items /\ clock <= c.items[key].Expiration
  THEN [value |-> c.items[key].Value, found |-> TRUE]
  ELSE [value |-> NilData, found |-> FALSE]

\* Get(key) at time `clock`: an entry is visible only while clock < Expiration
CacheGet(c, key, clock) ==
  IF key \in DOMAIN c.items /\ clock < c.items[key].Expiration
  THEN [value |-> c.items[key].Value, found |-> TRUE]
  ELSE [value |-> NilData, found |-> FALSE]

\* mutant: overwriting an entry keeps the expiration it had
CacheSetKeepExpiration(c, key, value, clock) ==
  [c EXCEPT !.items =
     [k \in DOMAIN c.items \cup {key} |->
        IF k = key
        THEN [Value |-> value,
              Expiration |-> IF key \in DOMAIN c.items
                             THEN c.items[key].Expiration ELSE clock + c.ttl]
        ELSE c.items[k]]]

\* Set(key, value) at time `clock`: overwrite, Expiration = clock + ttl
CacheSet(c, key, value, clock) ==
  [c EXCEPT !.items =
     [k \in DOMAIN c.items \cup {key} |->
        IF k = key THEN [Value |-> value, Expiration |-> clock + c.ttl]
        ELSE c.items[k]]]

\* mutant: Delete empties the whole map
CacheDeleteClears(c, key) == [c EXCEPT !.items = EmptyMap]

\* Delete(key): remove the entry whether or not it has expired
CacheDelete(c, key) ==
  [c EXCEPT !.items = [k \in DOMAIN c.items \ {key} |-> c.items[k]]]

\* mutant: a reader is admitted while a writer holds the lock
CanRLockAlways(m) == TRUE

\* c.mu.RLock() returns only while no writer holds the lock; readers share it
CanRLock(m) == m.writers = {}

\* mutant: a writer is admitted while readers hold the lock
CanWLockIgnoresReaders(m) == m.writers = {}

\* c.mu.Lock() returns only while nobody holds the lock
CanWLock(m) == m.writers = {} /\ m.readers = {}

\* what a map read racing with a map write may yield
RaceResults ==
  {[value |-> NilData, found |-> FALSE]}
    \cup {[value |-> [type |-> t, Symbol |-> <<"M">>, Average |-> a],
           found |-> TRUE] : t \in {"*StockData", "nil"}, a \in 0..2}

\* the outcomes of the map read of Get by a goroutine, at time `clock`
ReadOutcomes(c, m, key, clock) ==
  IF m.writers # {} THEN RaceResults ELSE {CacheGet(c, key, clock)}

\* ---------------------------------------------------------- stock client
Digits == <<"0", "1", "2", "3", "4", "5", "6", "7", "8", "9">>

\* strconv-style decimal formatting of an int (the %d verb)
RECURSIVE FormatNat(_)
FormatNat(n) ==
  IF n < 10 THEN <<Digits[n + 1]>>
  ELSE FormatNat(n \div 10) \o <<Digits[(n % 10) + 1]>>

FormatInt(n) == IF n < 0 THEN <<"-">> \o FormatNat(0 - n) ELSE FormatNat(n)

\* mutant: the key is built without the separator
CacheKeyNoSeparator(symbol, ndays) == symbol \o FormatInt(ndays)

\* cacheKey := fmt.Sprintf("%s_%d", symbol, ndays)
CacheKey(symbol, ndays) == symbol \o <<"_">> \o FormatInt(ndays)

\* The *StockData a successful fetch builds.  The payload of the upstream
\* response is summarised by its average.
StockData(symbol, average) ==
  [type |-> "*StockData", Symbol |-> symbol, Average |-> average]

\* fetchStockData against an upstream that answers with resp: the pair
\* (result, err) it returns.
fetchStockData(symbol, ndays, resp) ==
  CASE resp.kind = "transport" ->
         [result |-> NilData, err |-> "failed to call Alpha Vantage API"]
    [] resp.kind = "status" ->
         [result |-> NilData, err |-> "Alpha Vantage API returned status"]
    [] resp.kind = "body" ->
         [result |-> NilData, err |-> "failed to read response body"]
    [] resp.kind = "json" ->
         [result |-> NilData, err |-> "failed to unmarshal response"]
    [] resp.kind = "apierror" ->
         [result |-> NilData, err |-> "Alpha Vantage API error"]
    [] resp.kind = "empty" ->
         [result |-> NilData, err |-> "no time series data returned"]
    [] resp.kind = "novalid" ->
         [result |-> NilData, err |-> "no valid price data found"]
    [] OTHER ->
         [result |-> StockData(symbol, resp.average), err |-> Nil]

\* mutant: the metrics are recorded only when the fetch succeeds
deferredObserveOnSuccess(invoked, err) == IF err = Nil THEN invoked ELSE 0

\* the deferred function of fetchStockData: one duration observation and one
\* externalCalls increment per invocation, on every return path
deferredObserve(invoked, err) == invoked

\* mutant: the cached value is never used
ServedFromCacheNever(got) == FALSE

\* mutant: the type assertion names the struct instead of the pointer
ServedFromCacheWrongType(got) == got.found /\ got.value.type = "StockData"

\* the cache-hit return: the entry was found and holds a *StockData
ServedFromCache(got) == got.found /\ got.value.type = "*StockData"

\* mutant: the result is never written to the cache
ShouldCacheNever(cbErr, err, result) == FALSE

\* mutant: the cache is written whatever the breaker and the fetch returned
ShouldCacheAlways(cbErr, err, result) == TRUE

\* "Cache the successful result": reached only when the breaker returned no
\* error, and taken when the fetch left err nil and result non-nil
ShouldCache(cbErr, err, result) ==
  cbErr = Nil /\ err = Nil /\ result # NilData

\* mutant: the breaker's error is dropped
ReturnAfterCallIgnoreBreaker(cbErr, err, result) ==
  [value |-> result, err |-> err]

\* mutant: a successful call returns no value
ReturnAfterCallDropsValue(cbErr, err, result) ==
  [value |-> NilData, err |-> IF cbErr # Nil THEN cbErr ELSE err]

\* mutant: a failed fetch is reported as "no data" with a nil error
ReturnAfterCallSwallowsError(cbErr, err, result) ==
  IF cbErr # Nil /\ cbErr # ErrCircuitBreakerOpen
  THEN [value |-> NilData, err |-> Nil]
  ELSE IF cbErr # Nil THEN [value |-> NilData, err |-> cbErr]
       ELSE [value |-> result, err |-> err]

\* what GetStockData returns after the breaker call
ReturnAfterCall(cbErr, err, result) ==
  IF cbErr # Nil THEN [value |-> NilData, err |-> cbErr]
  ELSE [value |-> result, err |-> err]

\* mutant: on an error, fall back to the entry the map still holds
GetStockDataResultStaleFallback(cl, symbol, ndays, resp, clock) ==
  LET cacheKey == CacheKey(symbol, ndays)
      got      == CacheGet(cl.cache, cacheKey, clock)
      hits     == IF got.found THEN cl.cacheHits + 1 ELSE cl.cacheHits
      fetched  == fetchStockData(symbol, ndays, resp)
      call     == CallResult(cl.cb, [err |-> fetched.err, dur |-> resp.dur], clock)
      result   == IF call.invoked = 1 THEN fetched.result ELSE NilData
      err      == IF call.invoked = 1 THEN fetched.err ELSE Nil
      doSet    == ShouldCache(call.ret, err, result)
      stale    == IF cacheKey \in DOMAIN cl.cache.items
                  THEN cl.cache.items[cacheKey].Value ELSE NilData
      out      == IF call.ret # Nil /\ stale # NilData
                  THEN [value |-> stale, err |-> Nil]
                  ELSE ReturnAfterCall(call.ret, err, result)
  IN IF ServedFromCache(got)
     THEN [cb |-> cl.cb, cache |-> cl.cache, cacheHits |-> hits,
           cacheMisses |-> cl.cacheMisses, externalCalls |-> cl.externalCalls,
           externalCallDuration |-> cl.externalCallDuration,
           value |-> got.value, err |-> Nil, now |-> clock, key |-> cacheKey,
           found |-> TRUE, called |-> 0, invoked |-> 0, sets |-> 0, mid |-> cl.cb,
           fetched |-> NilData, circuitBreakerState |-> cl.circuitBreakerState]
     ELSE [cb |-> call.cb,
           cache |-> IF doSet THEN CacheSet(cl.cache, cacheKey, result, call.now)
                     ELSE cl.cache,
           cacheHits |-> hits,
           cacheMisses |-> cl.cacheMisses + 1,
           externalCalls |-> cl.externalCalls + deferredObserve(call.invoked, err),
           externalCallDuration |->
             cl.externalCallDuration + deferredObserve(call.invoked, err),
           value |-> out.value, err |-> out.err,
           now |-> call.now, key |-> cacheKey,
           found |-> got.found, called |-> 1, invoked |-> call.invoked,
           sets |-> IF doSet THEN 1 ELSE 0, mid |-> call.mid,
           fetched |-> result, circuitBreakerState |-> cl.circuitBreakerState]

\* mutant: a failed fetch is tried a second time
GetStockDataResultRetry(cl, symbol, ndays, resp, clock) ==
  LET cacheKey == CacheKey(symbol, ndays)
      got      == CacheGet(cl.cache, cacheKey, clock)
      hits     == IF got.found THEN cl.cacheHits + 1 ELSE cl.cacheHits
      fetched  == fetchStockData(symbol, ndays, resp)
      fn       == [err |-> fetched.err, dur |-> resp.dur]
      first    == CallResult(cl.cb, fn, clock)
      again    == CallResult(first.cb, fn, first.now)
      call     == IF first.invoked = 1 /\ first.ret # Nil
                  THEN [again EXCEPT !.invoked = first.invoked + again.invoked,
                                     !.mid = first.mid]
                  ELSE first
      result   == IF call.invoked >= 1 THEN fetched.result ELSE NilData
      err      == IF call.invoked >= 1 THEN fetched.err ELSE Nil
      doSet    == ShouldCache(call.ret, err, result)
      out      == ReturnAfterCall(call.ret, err, result)
  IN IF ServedFromCache(got)
     THEN [cb |-> cl.cb, cache |-> cl.cache, cacheHits |-> hits,
           cacheMisses |-> cl.cacheMisses, externalCalls |-> cl.externalCalls,
           externalCallDuration |-> cl.externalCallDuration,
           value |-> got.value, err |-> Nil, now |-> clock, key |-> cacheKey,
           found |-> TRUE, called |-> 0, invoked |-> 0, sets |-> 0, mid |-> cl.cb,
           fetched |-> NilData, circuitBreakerState |-> cl.circuitBreakerState]
     ELSE [cb |-> call.cb,
           cache |-> IF doSet THEN CacheSet(cl.cache, cacheKey, result, call.now)
                     ELSE cl.cache,
           cacheHits |-> hits,
           cacheMisses |-> cl.cacheMisses + 1,
           externalCalls |-> cl.externalCalls + deferredObserve(call.invoked, err),
           externalCallDuration |->
             cl.externalCallDuration + deferredObserve(call.invoked, err),
           value |-> out.value, err |-> out.err,
           now |-> call.now, key |-> cacheKey,
           found |-> got.found, called |-> 1, invoked |-> call.invoked,
           sets |-> IF doSet THEN 1 ELSE 0, mid |-> call.mid,
           fetched |-> result, circuitBreakerState |-> cl.circuitBreakerState]

\* mutant: the call looks the key up again and skips the fetch if it is there
CallFetchDoubleChecked(cl, key, fn, clock) ==
  IF CacheGet(cl.cache, key, clock).found
  THEN [cb |-> cl.cb, ret |-> Nil, invoked |-> 0, now |-> clock, mid |-> cl.cb]
  ELSE CallResult(cl.cb, fn, clock)

\* c.circuitBreaker.Call(func() error { result, err = c.fetchStockData(...) })
\* by a goroutine that missed the cache for key
CallFetch(cl, key, fn, clock) == CallResult(cl.cb, fn, clock)

\* mutant: a key the client holds nothing for gets a breaker of its own
GetStockDataResultBreakerPerKey(cl, symbol, ndays, resp, clock) ==
  LET cacheKey == CacheKey(symbol, ndays)
      got      == CacheGet(cl.cache, cacheKey, clock)
      hits     == IF got.found THEN cl.cacheHits + 1 ELSE cl.cacheHits
      fetched  == fetchStockData(symbol, ndays, resp)
      breaker  == IF cacheKey \in DOMAIN cl.cache.items
                  THEN cl.cb
                  ELSE NewCircuitBreaker(cl.cb.failureThreshold,
                                         cl.cb.successThreshold, cl.cb.timeout)
      call     == CallResult(breaker, [err |-> fetched.err, dur |-> resp.dur], clock)
      result   == IF call.invoked = 1 THEN fetched.result ELSE NilData
      err      == IF call.invoked = 1 THEN fetched.err ELSE Nil
      doSet    == ShouldCache(call.ret, err, result)
      out      == ReturnAfterCall(call.ret, err, result)
  IN IF ServedFromCache(got)
     THEN [cb |-> cl.cb, cache |-> cl.cache, cacheHits |-> hits,
           cacheMisses |-> cl.cacheMisses, externalCalls |-> cl.externalCalls,
           externalCallDuration |-> cl.externalCallDuration,
           value |-> got.value, err |-> Nil, now |-> clock, key |-> cacheKey,
           found |-> TRUE, called |-> 0, invoked |-> 0, sets |-> 0, mid |-> cl.cb,
           fetched |-> NilData, circuitBreakerState |-> cl.circuitBreakerState]
     ELSE [cb |-> call.cb,
           cache |-> IF doSet THEN CacheSet(cl.cache, cacheKey, result, call.now)
                     ELSE cl.cache,
           cacheHits |-> hits,
           cacheMisses |-> cl.cacheMisses + 1,
           externalCalls |-> cl.externalCalls + deferredObserve(call.invoked, err),
           externalCallDuration |->
             cl.externalCallDuration + deferredObserve(call.invoked, err),
           value |-> out.value, err |-> out.err,
           now |-> call.now, key |-> cacheKey,
           found |-> got.found, called |-> 1, invoked |-> call.invoked,
           sets |-> IF doSet THEN 1 ELSE 0, mid |-> call.mid,
           fetched |-> result, circuitBreakerState |-> cl.circuitBreakerState]

\* Client.GetStockData(symbol, ndays) entered at time `clock` with the
\* client's cache, breaker and counters in cl, against an upstream that
\* answers resp.  The result holds the client's state after the call, the
\* pair (value, err) returned and what the call did on the way.
GetStockDataResult(cl, symbol, ndays, resp, clock) ==
  LET cacheKey == CacheKey(symbol, ndays)
      got      == CacheGet(cl.cache, cacheKey, clock)
      hits     == IF got.found THEN cl.cacheHits + 1 ELSE cl.cacheHits
      fetched  == fetchStockData(symbol, ndays, resp)
      call     == CallResult(cl.cb, [err |-> fetched.err, dur |-> resp.dur], clock)
      result   == IF call.invoked = 1 THEN fetched.result ELSE NilData
      err      == IF call.invoked = 1 THEN fetched.err ELSE Nil
      doSet    == ShouldCache(call.ret, err, result)
      out      == ReturnAfterCall(call.ret, err, result)
  IN IF ServedFromCache(got)
     THEN [cb |-> cl.cb, cache |-> cl.cache, cacheHits |-> hits,
           cacheMisses |-> cl.cacheMisses, externalCalls |-> cl.externalCalls,
           externalCallDuration |-> cl.externalCallDuration,
           value |-> got.value, err |-> Nil, now |-> clock, key |-> cacheKey,
           found |-> TRUE, called |-> 0, invoked |-> 0, sets |-> 0, mid |-> cl.cb,
           fetched |-> NilData, circuitBreakerState |-> cl.circuitBreakerState]
     ELSE [cb |-> call.cb,
           cache |-> IF doSet THEN CacheSet(cl.cache, cacheKey, result, call.now)
                     ELSE cl.cache,
           cacheHits |-> hits,
           cacheMisses |-> cl.cacheMisses + 1,
           externalCalls |-> cl.externalCalls + deferredObserve(call.invoked, err),
           externalCallDuration |->
             cl.externalCallDuration + deferredObserve(call.invoked, err),
           value |-> out.value, err |-> out.err,
           now |-> call.now, key |-> cacheKey,
           found |-> got.found, called |-> 1, invoked |-> call.invoked,
           sets |-> IF doSet THEN 1 ELSE 0, mid |-> call.mid,
           fetched |-> result, circuitBreakerState |-> cl.circuitBreakerState]

\* ------------------------------------------------------- HTTP handlers
StatusOK == 200
StatusInternalServerError == 500
StatusServiceUnavailable == 503

\* status written by stockHandler, stockSymbolHandler and
\* stockSymbolDaysHandler for the error GetStockData returned
stockHandler(err) ==
  IF err # Nil THEN StatusInternalServerError ELSE StatusOK

\* status written by readyHandler for the error GetStockData returned
readyHandler(err) ==
  IF err # Nil THEN StatusServiceUnavailable ELSE StatusOK

\* ------------------------------------------------------------ the system
VARIABLES
  cb,                    \* the CircuitBreaker struct
  cache,                 \* the Cache struct
  cacheHits,             \* Client.cacheHits counter
  cacheMisses,           \* Client.cacheMisses counter
  externalCalls,         \* Client.externalCalls counter
  externalCallDuration,  \* number of observations of the duration histogram
  now,                   \* the clock
  calls,                 \* number of Call / GetStockData invocations so far
  last,                  \* record of the most recent invocation
  leadFails,             \* calls so far, while all of them ran a failing operation
  probeStreak,           \* successes in a row since HalfOpen was entered
  circuitBreakerState,   \* Client.circuitBreakerState gauge
  fetches,               \* fetchStockData invocations that have returned
  written,               \* per key, the latest Set or Delete issued directly
  failRun,               \* invoked operations that failed in a row, most recently
  probed,                \* outcomes of the operations invoked since HalfOpen was
                         \* last entered by a sequential caller, oldest first
  rejections,            \* sequential calls the breaker rejected
  threads,               \* per goroutine: position and locals of its call
  mu,                    \* holders of CircuitBreaker.mu and of Cache.mu
  serial                 \* the breaker as the concurrent Calls, one at a time, leave it

vars == <<cb, cache, cacheHits, cacheMisses, externalCalls,
          externalCallDuration, now, calls, last, leadFails, probeStreak,
          circuitBreakerState, fetches, written, failRun, probed, rejections,
          threads, mu, serial>>

\* the state of the goroutines
concVars == <<threads, mu, serial>>

\* errors a wrapped operation handed to Call directly returns
OpErrors == {"test error", "other error"}

\* outcomes of an operation handed to Call directly
FnOutcomes == [err : {Nil} \cup OpErrors, dur : 0..MaxOpDur]

\* the (symbol, ndays) pairs requested
Requests == {<<<<"M">>, 1>>, <<<<"M", "_", "1">>, 11>>}

\* the kinds of upstream answer exercised
ResponseKinds == {"ok", "status", "empty"}

\* answers of the upstream API, with the time the exchange takes
Responses ==
  [kind : {"ok"}, average : {1, 2}, dur : 0..MaxOpDur]
    \cup [kind : ResponseKinds \ {"ok"}, average : {0}, dur : 0..MaxOpDur]

\* the client's mutable state as GetStockData sees it
ClientState ==
  [cb |-> cb, cache |-> cache, cacheHits |-> cacheHits,
   cacheMisses |-> cacheMisses, externalCalls |-> externalCalls,
   externalCallDuration |-> externalCallDuration,
   circuitBreakerState |-> circuitBreakerState]

\* the goroutines
Procs == 1..NumProcs

\* a goroutine that has not started its call
IdleThread ==
  [pc |-> "idle", op |-> "none", key |-> <<>>, err |-> Nil, ret |-> Nil,
   value |-> NilData, found |-> FALSE, branch |-> StateClosed, start |-> 0,
   invoked |-> 0, exp |-> Nil, seen |-> Nil, req |-> <<>>]

\* no mutex is held
NoLocks == [cb |-> {}, readers |-> {}, writers |-> {}]

\* snapshot taken when an invocation starts
Snapshot ==
  [cb |-> cb, cache |-> cache, now |-> now, cacheHits |-> cacheHits,
   cacheMisses |-> cacheMisses, externalCalls |-> externalCalls,
   externalCallDuration |-> externalCallDuration,
   circuitBreakerState |-> circuitBreakerState]

NoCall ==
  [op |-> "none", symbol |-> <<>>, ndays |-> 0, key |-> <<>>,
   fn |-> [err |-> Nil, dur |-> 0], called |-> 0, invoked |-> 0,
   ret |-> Nil, value |-> NilData, found |-> FALSE, sets |-> 0,
   mid |-> Nil, pre |-> Nil, end |-> 0, fetched |-> NilData, status |-> 0]

\* successes in a row since the breaker entered HalfOpen, after a Call that
\* found the breaker c, passed the switch with mid and ran an operation
\* returning err
NextProbeStreak(streak, c, mid, err) ==
  IF c.state = StateOpen /\ mid.state = StateHalfOpen
  THEN IF err = Nil THEN 1 ELSE 0
  ELSE IF mid.state = StateHalfOpen /\ streak > 0 /\ err = Nil
       THEN streak + 1
       ELSE 0

\* failed operations in a row after a call that invoked its operation
\* `invoked` times with outcome err
NextFailRun(run, invoked, err) ==
  IF invoked = 0 THEN run ELSE IF err # Nil THEN run + 1 ELSE 0

\* outcomes of the operations invoked since the breaker entered HalfOpen,
\* after a Call that found the breaker c, passed the switch with mid and
\* invoked its operation `invoked` times with outcome err
NextProbed(trail, c, mid, invoked, err) ==
  IF invoked = 0 \/ mid.state # StateHalfOpen
  THEN trail
  ELSE IF c.state = StateOpen THEN <<err>> ELSE Append(trail, err)

Init ==
  /\ \E ft \in 1..MaxFailureThreshold, st \in 1..MaxSuccessThreshold,
        to \in 1..MaxTimeout :
        cb = NewCircuitBreaker(ft, st, to)
  /\ \E ttl \in 1..MaxTTL : cache = NewCache(ttl)
  /\ cacheHits = 0
  /\ cacheMisses = 0
  /\ externalCalls = 0
  /\ externalCallDuration = 0
  /\ now = 0
  /\ calls = 0
  /\ last = NoCall
  /\ leadFails = 0
  /\ probeStreak = 0
  /\ circuitBreakerState = 0
  /\ fetches = 0
  /\ written = EmptyMap
  /\ failRun = 0
  /\ probed = <<>>
  /\ rejections = 0
  /\ threads = [p \in Procs |-> IdleThread]
  /\ mu = NoLocks
  /\ serial = cb

\* cb.Call(fn) by a direct caller of the breaker
Call ==
  \E fn \in FnOutcomes :
    LET r == CallResult(cb, fn, now)
    IN /\ calls < MaxCalls
       /\ r.now <= MaxTime
       /\ cb' = r.cb
       /\ now' = r.now
       /\ calls' = calls + 1
       /\ last' = [op |-> "Call", symbol |-> <<>>, ndays |-> 0, key |-> <<>>,
                   fn |-> fn, called |-> 1, invoked |-> r.invoked,
                   ret |-> r.ret, value |-> NilData, found |-> FALSE, sets |-> 0,
                   mid |-> r.mid, pre |-> Snapshot, end |-> r.now,
                   fetched |-> NilData, status |-> 0]
       /\ leadFails' = IF leadFails = calls /\ fn.err # Nil
                       THEN leadFails + 1 ELSE leadFails
       /\ probeStreak' = NextProbeStreak(probeStreak, cb, r.mid, fn.err)
       /\ failRun' = NextFailRun(failRun, r.invoked, fn.err)
       /\ probed' = NextProbed(probed, cb, r.mid, r.invoked, fn.err)
       /\ rejections' = rejections + (1 - r.invoked)
       /\ UNCHANGED concVars
       /\ UNCHANGED <<cache, cacheHits, cacheMisses, externalCalls,
                      externalCallDuration, circuitBreakerState, fetches,
                      written>>

\* a stock endpoint calling client.GetStockData(symbol, ndays, nil) while the
\* upstream answers resp, and writing the response status
GetStockData ==
  \E req \in Requests, resp \in Responses :
    LET symbol == req[1]
        ndays  == req[2]
        r  == GetStockDataResult(ClientState, symbol, ndays, resp, now)
        fn == [err |-> fetchStockData(symbol, ndays, resp).err, dur |-> resp.dur]
    IN /\ calls < MaxRequests
       /\ r.now <= MaxTime
       /\ cb' = r.cb
       /\ cache' = r.cache
       /\ cacheHits' = r.cacheHits
       /\ cacheMisses' = r.cacheMisses
       /\ externalCalls' = r.externalCalls
       /\ externalCallDuration' = r.externalCallDuration
       /\ now' = r.now
       /\ calls' = calls + 1
       /\ last' = [op |-> "GetStockData", symbol |-> symbol, ndays |-> ndays,
                   key |-> r.key, fn |-> fn, called |-> r.called,
                   invoked |-> r.invoked, ret |-> r.err, value |-> r.value,
                   found |-> r.found, sets |-> r.sets, mid |-> r.mid,
                   pre |-> Snapshot, end |-> r.now, fetched |-> r.fetched,
                   status |-> stockHandler(r.err)]
       /\ leadFails' = IF leadFails = calls /\ r.invoked = 1 /\ fn.err # Nil
                       THEN leadFails + 1 ELSE leadFails
       /\ probeStreak' = IF r.called = 1
                         THEN NextProbeStreak(probeStreak, cb, r.mid, fn.err)
                         ELSE probeStreak
       /\ circuitBreakerState' = r.circuitBreakerState
       /\ fetches' = fetches + r.invoked
       /\ written' = written
       /\ UNCHANGED concVars
       /\ failRun' = NextFailRun(failRun, r.invoked, fn.err)
       /\ probed' = IF r.called = 1
                    THEN NextProbed(probed, cb, r.mid, r.invoked, fn.err)
                    ELSE probed
       /\ rejections' = IF r.called = 1 /\ r.invoked = 0
                        THEN rejections + 1 ELSE rejections

\* time passes between invocations
Tick ==
  /\ now < MaxTime
  /\ now' = now + 1
  /\ UNCHANGED concVars
  /\ UNCHANGED <<cb, cache, cacheHits, cacheMisses, externalCalls,
                 externalCallDuration, calls, last, leadFails, probeStreak,
                 circuitBreakerState, fetches, written, failRun, probed,
                 rejections>>

\* the stock client serving requests
Next == GetStockData \/ Tick

Spec == Init /\ [][Next]_vars

\* the circuit breaker driven directly
NextCB == Call \/ Tick

SpecCB == Init /\ [][NextCB]_vars

\* cb.GetState() by a direct caller of the breaker
ReadState ==
  LET r == GetStateResult(cb, now)
  IN /\ cb' = r.cb
     /\ last' = [NoCall EXCEPT !.op = "GetState", !.ret = r.ret,
                               !.pre = Snapshot, !.end = now]
     /\ UNCHANGED concVars
     /\ UNCHANGED <<cache, cacheHits, cacheMisses, externalCalls,
                    externalCallDuration, now, calls, leadFails, probeStreak,
                    circuitBreakerState, fetches, written, failRun, probed,
                    rejections>>

\* cb.GetMetrics() by a direct caller of the breaker
ReadMetrics ==
  LET r == GetMetricsResult(cb, now)
  IN /\ cb' = r.cb
     /\ last' = [NoCall EXCEPT !.op = "GetMetrics", !.ret = r.ret,
                               !.pre = Snapshot, !.end = now]
     /\ UNCHANGED concVars
     /\ UNCHANGED <<cache, cacheHits, cacheMisses, externalCalls,
                    externalCallDuration, now, calls, leadFails, probeStreak,
                    circuitBreakerState, fetches, written, failRun, probed,
                    rejections>>

\* the circuit breaker driven and inspected directly
NextInspect == Call \/ ReadState \/ ReadMetrics \/ Tick

SpecInspect == Init /\ [][NextInspect]_vars

\* the breaker c after the Calls with a failing operation, made at time t,
\* that open it
RECURSIVE FailUntilOpen(_, _)
FailUntilOpen(c, t) ==
  IF c.state = StateOpen
  THEN c
  ELSE FailUntilOpen(CallResult(c, [err |-> "test error", dur |-> 0], t).cb, t)

\* a breaker that failing Calls have just opened
InitRecover ==
  /\ \E ft \in 1..MaxFailureThreshold, st \in 1..MaxSuccessThreshold,
        to \in 1..MaxTimeout :
        cb = FailUntilOpen(NewCircuitBreaker(ft, st, to), 0)
  /\ \E ttl \in 1..MaxTTL : cache = NewCache(ttl)
  /\ cacheHits = 0
  /\ cacheMisses = 0
  /\ externalCalls = 0
  /\ externalCallDuration = 0
  /\ now = 0
  /\ calls = 0
  /\ last = NoCall
  /\ leadFails = 0
  /\ probeStreak = 0
  /\ circuitBreakerState = 0
  /\ fetches = 0
  /\ written = EmptyMap
  /\ failRun = cb.failureThreshold
  /\ probed = <<>>
  /\ rejections = 0
  /\ threads = [p \in Procs |-> IdleThread]
  /\ mu = NoLocks
  /\ serial = cb

\* cb.Call(fn) once the dependency has recovered: fn succeeds.  Calls keep
\* arriving, so neither they nor the rejected ones among them are counted.
CallRecovered ==
  \E fn \in {f \in FnOutcomes : f.err = Nil} :
    LET r == CallResult(cb, fn, now)
    IN /\ r.now <= MaxTime
       /\ cb' = r.cb
       /\ now' = r.now
       /\ last' = [op |-> "Call", symbol |-> <<>>, ndays |-> 0, key |-> <<>>,
                   fn |-> fn, called |-> 1, invoked |-> r.invoked,
                   ret |-> r.ret, value |-> NilData, found |-> FALSE, sets |-> 0,
                   mid |-> r.mid, pre |-> Snapshot, end |-> r.now,
                   fetched |-> NilData, status |-> 0]
       /\ probeStreak' = NextProbeStreak(probeStreak, cb, r.mid, fn.err)
       /\ failRun' = NextFailRun(failRun, r.invoked, fn.err)
       /\ probed' = NextProbed(probed, cb, r.mid, r.invoked, fn.err)
       /\ UNCHANGED concVars
       /\ UNCHANGED <<cache, cacheHits, cacheMisses, externalCalls,
                      externalCallDuration, calls, leadFails, rejections,
                      circuitBreakerState, fetches, written>>

NextRecover == CallRecovered \/ Tick

\* the recovered dependency: time keeps advancing and Calls keep arriving
SpecRecover ==
  InitRecover /\ [][NextRecover]_vars /\ WF_vars(Tick) /\ WF_vars(CallRecovered)

\* ------------------------------------- the breaker called concurrently
\* mutant: the mutex is released before fn() is invoked
EnterUnlocksBeforeFn(p) ==
  \E err \in {Nil, "test error"} :
    LET c1  == CheckHalfOpen(cb, now)
        rej == CallResult(serial, [err |-> err, dur |-> 0], now)
    IN /\ threads[p].pc = "idle"
       /\ CanLock(mu.cb)
       /\ mu' = IF c1.state = StateOpen THEN [mu EXCEPT !.cb = @ \cup {p}] ELSE mu
       /\ cb' = c1
       /\ threads' =
            [threads EXCEPT ![p] =
               [@ EXCEPT !.pc = IF c1.state = StateOpen THEN "return" ELSE "fn",
                         !.op = "Call", !.err = err, !.branch = c1.state,
                         !.start = now,
                         !.ret = IF c1.state = StateOpen
                                 THEN ErrCircuitBreakerOpen ELSE Nil,
                         !.exp = IF c1.state = StateOpen THEN rej.ret ELSE Nil]]
       /\ serial' = IF c1.state = StateOpen THEN rej.cb ELSE serial
       /\ UNCHANGED <<cache, cacheHits, cacheMisses, externalCalls,
                      externalCallDuration, now, calls, last, leadFails,
                      probeStreak, circuitBreakerState, fetches, written,
                      failRun, probed, rejections>>

\* Call, from cb.mu.Lock() to the switch: the goroutine takes the mutex, makes
\* the lazy transition and either is rejected or starts its operation, whose
\* outcome err it will get
Enter(p) ==
  \E err \in {Nil, "test error"} :
    LET c1  == CheckHalfOpen(cb, now)
        rej == CallResult(serial, [err |-> err, dur |-> 0], now)
    IN /\ threads[p].pc = "idle"
       /\ CanLock(mu.cb)
       /\ mu' = [mu EXCEPT !.cb = @ \cup {p}]
       /\ cb' = c1
       /\ threads' =
            [threads EXCEPT ![p] =
               [@ EXCEPT !.pc = IF c1.state = StateOpen THEN "return" ELSE "fn",
                         !.op = "Call", !.err = err, !.branch = c1.state,
                         !.start = now,
                         !.ret = IF c1.state = StateOpen
                                 THEN ErrCircuitBreakerOpen ELSE Nil,
                         !.exp = IF c1.state = StateOpen THEN rej.ret ELSE Nil]]
       /\ serial' = IF c1.state = StateOpen THEN rej.cb ELSE serial
       /\ UNCHANGED <<cache, cacheHits, cacheMisses, externalCalls,
                      externalCallDuration, now, calls, last, leadFails,
                      probeStreak, circuitBreakerState, fetches, written,
                      failRun, probed, rejections>>

\* Call, from the return of fn() to the return statement: the bookkeeping of
\* the case the switch selected
Finish(p) ==
  LET th  == threads[p]
      one == CallResult(serial, [err |-> th.err, dur |-> now - th.start],
                        th.start)
  IN /\ th.pc = "fn"
     /\ cb' = IF th.branch = StateHalfOpen
              THEN CallHalfOpen(cb, th.err, now)
              ELSE CallClosed(cb, th.err, now)
     /\ threads' = [threads EXCEPT ![p] =
                     [@ EXCEPT !.pc = "return", !.ret = th.err,
                               !.invoked = 1, !.exp = one.ret]]
     /\ serial' = one.cb
     /\ UNCHANGED <<cache, cacheHits, cacheMisses, externalCalls,
                    externalCallDuration, now, calls, last, leadFails,
                    probeStreak, circuitBreakerState, fetches, written,
                    failRun, probed, rejections, mu>>

\* the deferred cb.mu.Unlock()
Unlock(p) ==
  /\ threads[p].pc = "return"
  /\ threads' = [threads EXCEPT ![p].pc = "done"]
  /\ mu' = [mu EXCEPT !.cb = @ \ {p}]
  /\ UNCHANGED <<cb, cache, cacheHits, cacheMisses, externalCalls,
                 externalCallDuration, now, calls, last, leadFails,
                 probeStreak, circuitBreakerState, fetches, written,
                 failRun, probed, rejections, serial>>

NextConc ==
  \/ \E p \in Procs : Enter(p)
  \/ \E p \in Procs : Finish(p)
  \/ \E p \in Procs : Unlock(p)
  \/ Tick

SpecConc == Init /\ [][NextConc]_vars

\* cb.GetState() or cb.GetMetrics() by a goroutine: it takes the mutex, reads
\* and releases it
Inspect(p) ==
  \E op \in {"GetState", "GetMetrics"} :
    /\ threads[p].pc = "idle"
    /\ CanLock(mu.cb)
    /\ threads' =
         [threads EXCEPT ![p] =
            [@ EXCEPT !.pc = "done", !.op = op, !.start = now,
                      !.seen = IF op = "GetState"
                               THEN GetStateResult(cb, now).ret
                               ELSE GetMetricsResult(cb, now).ret]]
    /\ UNCHANGED <<cb, cache, cacheHits, cacheMisses, externalCalls,
                   externalCallDuration, now, calls, last, leadFails,
                   probeStreak, circuitBreakerState, fetches, written,
                   failRun, probed, rejections, mu, serial>>

\* goroutines calling and inspecting the breaker
NextStall ==
  \/ \E p \in Procs : Enter(p)
  \/ \E p \in Procs : Finish(p)
  \/ \E p \in Procs : Unlock(p)
  \/ \E p \in Procs : Inspect(p)
  \/ Tick

SpecStall == Init /\ [][NextStall]_vars

\* ------------------------------------------------ the cache key alone
\* symbols, with and without the separator, and numbers of days
KeySymbols ==
  {<<>>, <<"M">>, <<"M", "1">>, <<"M", "_">>, <<"M", "_", "1">>,
   <<"M", "_", "1", "_">>}

KeyDays == {0 - 1, 0, 1, 11}

\* two requests, each for any symbol and number of days
InitKey ==
  /\ \E ft \in 1..MaxFailureThreshold, st \in 1..MaxSuccessThreshold,
        to \in 1..MaxTimeout :
        cb = NewCircuitBreaker(ft, st, to)
  /\ \E ttl \in 1..MaxTTL : cache = NewCache(ttl)
  /\ cacheHits = 0
  /\ cacheMisses = 0
  /\ externalCalls = 0
  /\ externalCallDuration = 0
  /\ now = 0
  /\ calls = 0
  /\ last = NoCall
  /\ leadFails = 0
  /\ probeStreak = 0
  /\ circuitBreakerState = 0
  /\ fetches = 0
  /\ written = EmptyMap
  /\ failRun = 0
  /\ probed = <<>>
  /\ rejections = 0
  /\ \E r1 \in KeySymbols \X KeyDays, r2 \in KeySymbols \X KeyDays :
       threads = [p \in Procs |->
                    [IdleThread EXCEPT !.req = IF p = 1 THEN r1
                                               ELSE IF p = 2 THEN r2 ELSE <<>>]]
  /\ mu = NoLocks
  /\ serial = cb

\* GetStockData up to the cache key
MakeKey(p) ==
  /\ threads[p].pc = "idle"
  /\ threads' =
       [threads EXCEPT ![p] =
          [@ EXCEPT !.pc = "keyed", !.op = "GetStockData",
                    !.key = CacheKey(threads[p].req[1], threads[p].req[2])]]
  /\ UNCHANGED <<cb, cache, cacheHits, cacheMisses, externalCalls,
                 externalCallDuration, now, calls, last, leadFails,
                 probeStreak, circuitBreakerState, fetches, written,
                 failRun, probed, rejections, mu, serial>>

NextKey == \E p \in 1..2 : MakeKey(p)

SpecKey == InitKey /\ [][NextKey]_vars

\* ---------------------------------- GetStockData called concurrently
Clients == 1..NumClients

\* upstream answers; the time an exchange takes passes as clock ticks
InstantResponses == {resp \in Responses : resp.dur = 0}

\* mutant: the cache is looked up under the breaker's mutex
LookupUnderBreakerLock(p) ==
  \E req \in Requests :
    LET key == CacheKey(req[1], req[2])
        got == CacheGet(cache, key, now)
        hit == ServedFromCache(got)
    IN /\ threads[p].pc = "idle"
       /\ CanLock(mu.cb)
       /\ cacheHits' = IF got.found THEN cacheHits + 1 ELSE cacheHits
       /\ cacheMisses' = IF hit THEN cacheMisses ELSE cacheMisses + 1
       /\ threads' =
            [threads EXCEPT ![p] =
               [@ EXCEPT !.pc = IF hit THEN "done" ELSE "miss",
                         !.op = "GetStockData", !.req = req, !.key = key,
                         !.found = got.found,
                         !.value = IF hit THEN got.value ELSE NilData]]
       /\ UNCHANGED <<cb, cache, externalCalls, externalCallDuration, now,
                      calls, last, leadFails, probeStreak,
                      circuitBreakerState, fetches, written, failRun, probed,
                      rejections, mu, serial>>

\* GetStockData up to the cache miss: the lookup and the hit / miss counters
Lookup(p) ==
  \E req \in Requests :
    LET key == CacheKey(req[1], req[2])
        got == CacheGet(cache, key, now)
        hit == ServedFromCache(got)
    IN /\ threads[p].pc = "idle"
       /\ cacheHits' = IF got.found THEN cacheHits + 1 ELSE cacheHits
       /\ cacheMisses' = IF hit THEN cacheMisses ELSE cacheMisses + 1
       /\ threads' =
            [threads EXCEPT ![p] =
               [@ EXCEPT !.pc = IF hit THEN "done" ELSE "miss",
                         !.op = "GetStockData", !.req = req, !.key = key,
                         !.found = got.found,
                         !.value = IF hit THEN got.value ELSE NilData]]
       /\ UNCHANGED <<cb, cache, externalCalls, externalCallDuration, now,
                      calls, last, leadFails, probeStreak,
                      circuitBreakerState, fetches, written, failRun, probed,
                      rejections, mu, serial>>

\* the breaker call with the fetch inside it, atomic under the breaker's mutex
Fetch(p) ==
  \E resp \in InstantResponses :
    LET th      == threads[p]
        fetched == fetchStockData(th.req[1], th.req[2], resp)
        call    == CallFetch(ClientState, th.key,
                             [err |-> fetched.err, dur |-> 0], now)
        err     == IF call.invoked = 1 THEN fetched.err ELSE Nil
    IN /\ th.pc = "miss"
       /\ cb' = call.cb
       /\ externalCalls' = externalCalls + deferredObserve(call.invoked, err)
       /\ externalCallDuration' =
            externalCallDuration + deferredObserve(call.invoked, err)
       /\ fetches' = fetches + call.invoked
       /\ threads' =
            [threads EXCEPT ![p] =
               [@ EXCEPT !.pc = "called", !.ret = call.ret, !.err = err,
                         !.value = IF call.invoked = 1
                                   THEN fetched.result ELSE NilData,
                         !.invoked = call.invoked, !.start = now,
                         !.branch = call.mid.state]]
       /\ UNCHANGED <<cache, cacheHits, cacheMisses, now, calls, last,
                      leadFails, probeStreak, circuitBreakerState, written,
                      failRun, probed, rejections, mu, serial>>

\* GetStockData after the breaker call: return cbErr, or cache and return
Store(p) ==
  LET th  == threads[p]
      out == ReturnAfterCall(th.ret, th.err, th.value)
  IN /\ th.pc = "called"
     /\ cache' = IF ShouldCache(th.ret, th.err, th.value)
                 THEN CacheSet(cache, th.key, th.value, now) ELSE cache
     /\ threads' = [threads EXCEPT ![p] =
                     [@ EXCEPT !.pc = "done", !.ret = out.err,
                               !.value = out.value]]
     /\ UNCHANGED <<cb, cacheHits, cacheMisses, externalCalls,
                    externalCallDuration, now, calls, last, leadFails,
                    probeStreak, circuitBreakerState, fetches, written,
                    failRun, probed, rejections, mu, serial>>

NextClients ==
  \/ \E p \in Clients : Lookup(p)
  \/ \E p \in Clients : Fetch(p)
  \/ \E p \in Clients : Store(p)
  \/ Tick

SpecClients == Init /\ [][NextClients]_vars

\* ------------------------- GetStockData while a fetch is in progress
\* the client after one GetStockData("M", 1) that fetched and cached its
\* result at time 0; the history of sequential calls is not kept here
InitWarm ==
  \E ft \in 1..MaxFailureThreshold, st \in 1..MaxSuccessThreshold,
     to \in 1..MaxTimeout, ttl \in 1..MaxTTL, average \in {1, 2} :
    LET fresh == [cb |-> NewCircuitBreaker(ft, st, to), cache |-> NewCache(ttl),
                  cacheHits |-> 0, cacheMisses |-> 0, externalCalls |-> 0,
                  externalCallDuration |-> 0, circuitBreakerState |-> 0]
        r == GetStockDataResult(fresh, <<"M">>, 1,
                                [kind |-> "ok", average |-> average, dur |-> 0], 0)
    IN /\ cb = r.cb
       /\ cache = r.cache
       /\ cacheHits = r.cacheHits
       /\ cacheMisses = r.cacheMisses
       /\ externalCalls = r.externalCalls
       /\ externalCallDuration = r.externalCallDuration
       /\ now = r.now
       /\ calls = 1
       /\ last = NoCall
       /\ leadFails = 0
       /\ probeStreak = 0
       /\ circuitBreakerState = r.circuitBreakerState
       /\ fetches = r.invoked
       /\ written = EmptyMap
       /\ failRun = 0
       /\ probed = <<>>
       /\ rejections = 0
       /\ threads = [p \in Procs |-> IdleThread]
       /\ mu = NoLocks
       /\ serial = r.cb

\* circuitBreaker.Call from cb.mu.Lock() to the invocation of the closure:
\* the goroutine takes the mutex, makes the lazy transition and either is
\* rejected and returns, or starts fetchStockData holding the mutex
FetchBegin(p) ==
  LET th == threads[p]
      c1 == CheckHalfOpen(cb, now)
  IN /\ th.pc = "miss"
     /\ CanLock(mu.cb)
     /\ cb' = c1
     /\ mu' = IF c1.state = StateOpen THEN mu ELSE [mu EXCEPT !.cb = @ \cup {p}]
     /\ threads' =
          [threads EXCEPT ![p] =
             IF c1.state = StateOpen
             THEN [@ EXCEPT !.pc = "called", !.ret = ErrCircuitBreakerOpen,
                            !.err = Nil, !.value = NilData, !.invoked = 0,
                            !.start = now, !.branch = c1.state]
             ELSE [@ EXCEPT !.pc = "fetching", !.start = now,
                            !.branch = c1.state, !.seen = cacheHits]]
     /\ UNCHANGED <<cache, cacheHits, cacheMisses, externalCalls,
                    externalCallDuration, now, calls, last, leadFails,
                    probeStreak, circuitBreakerState, fetches, written,
                    failRun, probed, rejections, serial>>

\* circuitBreaker.Call from the return of fetchStockData to its own return:
\* the deferred metrics, the bookkeeping of the breaker, the unlock
FetchEnd(p) ==
  \E resp \in InstantResponses :
    LET th      == threads[p]
        fetched == fetchStockData(th.req[1], th.req[2], resp)
    IN /\ th.pc = "fetching"
       /\ cb' = IF th.branch = StateHalfOpen
                THEN CallHalfOpen(cb, fetched.err, now)
                ELSE CallClosed(cb, fetched.err, now)
       /\ externalCalls' = externalCalls + deferredObserve(1, fetched.err)
       /\ externalCallDuration' =
            externalCallDuration + deferredObserve(1, fetched.err)
       /\ fetches' = fetches + 1
       /\ mu' = [mu EXCEPT !.cb = @ \ {p}]
       /\ threads' =
            [threads EXCEPT ![p] =
               [@ EXCEPT !.pc = "called", !.ret = fetched.err,
                         !.err = fetched.err, !.value = fetched.result,
                         !.invoked = 1]]
       /\ UNCHANGED <<cache, cacheHits, cacheMisses, now, calls, last,
                      leadFails, probeStreak, circuitBreakerState, written,
                      failRun, probed, rejections, serial>>

NextFetching ==
  \/ \E p \in Clients : Lookup(p)
  \/ \E p \in Clients : FetchBegin(p)
  \/ \E p \in Clients : FetchEnd(p)
  \/ \E p \in Clients : Store(p)
  \/ Tick

SpecFetching == InitWarm /\ [][NextFetching]_vars

\* ---------------------------------------------- the cache driven directly
\* keys and values handed to the cache
CacheKeys == {CacheKey(req[1], req[2]) : req \in Requests}

CacheValues == {StockData(<<"M">>, 1), StockData(<<"M">>, 2)}

\* no earlier Set to overwrite or delete
NoSet == 0 - 1

InitCache ==
  /\ cb = NewCircuitBreaker(1, 1, 1)
  /\ \E ttl \in 1..MaxCacheTTL : cache = NewCache(ttl)
  /\ cacheHits = 0
  /\ cacheMisses = 0
  /\ externalCalls = 0
  /\ externalCallDuration = 0
  /\ now = 0
  /\ calls = 0
  /\ last = NoCall
  /\ leadFails = 0
  /\ probeStreak = 0
  /\ circuitBreakerState = 0
  /\ fetches = 0
  /\ written = EmptyMap
  /\ failRun = 0
  /\ probed = <<>>
  /\ rejections = 0
  /\ threads = [p \in Procs |-> IdleThread]
  /\ mu = NoLocks
  /\ serial = cb

\* cache.Set(key, value)
Set ==
  \E key \in CacheKeys, value \in CacheValues :
    /\ calls < MaxCacheOps
    /\ cache' = CacheSet(cache, key, value, now)
    /\ calls' = calls + 1
    /\ last' = [NoCall EXCEPT !.op = "Set", !.key = key, !.value = value,
                              !.sets = 1, !.pre = Snapshot, !.end = now]
    /\ written' =
         [k \in DOMAIN written \cup {key} |->
            IF k = key
            THEN [op |-> "Set", Value |-> value, at |-> now,
                  over |-> IF key \in DOMAIN written /\ written[key].op = "Set"
                           THEN written[key].at ELSE NoSet,
                  overValue |-> IF key \in DOMAIN written
                                THEN written[key].Value ELSE NilData]
            ELSE written[k]]
    /\ UNCHANGED concVars
    /\ UNCHANGED <<cb, cacheHits, cacheMisses, externalCalls,
                   externalCallDuration, now, leadFails, probeStreak,
                   circuitBreakerState, fetches, failRun, probed, rejections>>

\* value, found := cache.Get(key)
Get ==
  \E key \in CacheKeys :
    LET got == CacheGet(cache, key, now)
    IN /\ calls < MaxCacheOps
       /\ calls' = calls + 1
       /\ last' = [NoCall EXCEPT !.op = "Get", !.key = key,
                                 !.value = got.value, !.found = got.found,
                                 !.pre = Snapshot, !.end = now]
       /\ UNCHANGED concVars
       /\ UNCHANGED <<cb, cache, cacheHits, cacheMisses, externalCalls,
                      externalCallDuration, now, leadFails, probeStreak,
                      circuitBreakerState, fetches, written, failRun, probed,
                      rejections>>

\* cache.Delete(key)
Delete ==
  \E key \in CacheKeys :
    /\ calls < MaxCacheOps
    /\ cache' = CacheDelete(cache, key)
    /\ calls' = calls + 1
    /\ last' = [NoCall EXCEPT !.op = "Delete", !.key = key,
                              !.pre = Snapshot, !.end = now]
    /\ written' =
         [k \in DOMAIN written \cup {key} |->
            IF k = key
            THEN [op |-> "Delete", Value |-> NilData, at |-> now,
                  over |-> IF key \in DOMAIN written /\ written[key].op = "Set"
                           THEN written[key].at ELSE NoSet,
                  overValue |-> IF key \in DOMAIN written
                                THEN written[key].Value ELSE NilData]
            ELSE written[k]]
    /\ UNCHANGED concVars
    /\ UNCHANGED <<cb, cacheHits, cacheMisses, externalCalls,
                   externalCallDuration, now, leadFails, probeStreak,
                   circuitBreakerState, fetches, failRun, probed, rejections>>

NextCache == Set \/ Get \/ Delete \/ Tick

SpecCache == InitCache /\ [][NextCache]_vars

\* -------------------------------------- the cache called concurrently
\* no Set or Delete of the key so far
NoWrite ==
  [op |-> "none", Value |-> NilData, at |-> NoSet, over |-> NoSet,
   overValue |-> NilData]

\* the latest Set or Delete of key
LatestWrite(w, key) == IF key \in DOMAIN w THEN w[key] ELSE NoWrite

\* the record of writes after a Set or Delete of key at time `clock`
WrittenAfter(w, op, key, value, clock) ==
  [k \in DOMAIN w \cup {key} |->
     IF k = key
     THEN [op |-> op, Value |-> value, at |-> clock,
           over |-> IF LatestWrite(w, key).op = "Set"
                    THEN w[key].at ELSE NoSet,
           overValue |-> LatestWrite(w, key).Value]
     ELSE w[k]]

\* Get(key): c.mu.RLock()
RLock(p) ==
  \E key \in CacheKeys :
    /\ threads[p].pc = "idle"
    /\ CanRLock(mu)
    /\ mu' = [mu EXCEPT !.readers = @ \cup {p}]
    /\ threads' = [threads EXCEPT ![p] =
                    [@ EXCEPT !.pc = "rlocked", !.op = "Get", !.key = key]]
    /\ UNCHANGED <<cb, cache, cacheHits, cacheMisses, externalCalls,
                   externalCallDuration, now, calls, last, leadFails,
                   probeStreak, circuitBreakerState, fetches, written,
                   failRun, probed, rejections, serial>>

\* Get(key): the map lookup and the expiry check
Read(p) ==
  \E got \in ReadOutcomes(cache, mu, threads[p].key, now) :
    /\ threads[p].pc = "rlocked"
    /\ threads' = [threads EXCEPT ![p] =
                    [@ EXCEPT !.pc = "read", !.value = got.value,
                              !.found = got.found, !.start = now,
                              !.seen = LatestWrite(written, threads[p].key)]]
    /\ UNCHANGED <<cb, cache, cacheHits, cacheMisses, externalCalls,
                   externalCallDuration, now, calls, last, leadFails,
                   probeStreak, circuitBreakerState, fetches, written,
                   failRun, probed, rejections, mu, serial>>

\* Get(key): c.mu.RUnlock() and return
RUnlock(p) ==
  /\ threads[p].pc = "read"
  /\ mu' = [mu EXCEPT !.readers = @ \ {p}]
  /\ threads' = [threads EXCEPT ![p].pc = "done"]
  /\ UNCHANGED <<cb, cache, cacheHits, cacheMisses, externalCalls,
                 externalCallDuration, now, calls, last, leadFails,
                 probeStreak, circuitBreakerState, fetches, written,
                 failRun, probed, rejections, serial>>

\* Set(key, value) or Delete(key): c.mu.Lock()
WLock(p) ==
  \E key \in CacheKeys, value \in CacheValues \cup {NilData} :
    /\ threads[p].pc = "idle"
    /\ CanWLock(mu)
    /\ mu' = [mu EXCEPT !.writers = @ \cup {p}]
    /\ threads' = [threads EXCEPT ![p] =
                    [@ EXCEPT !.pc = "wlocked",
                              !.op = IF value = NilData THEN "Delete" ELSE "Set",
                              !.key = key, !.value = value]]
    /\ UNCHANGED <<cb, cache, cacheHits, cacheMisses, externalCalls,
                   externalCallDuration, now, calls, last, leadFails,
                   probeStreak, circuitBreakerState, fetches, written,
                   failRun, probed, rejections, serial>>

\* Set(key, value) or Delete(key): the map write
Write(p) ==
  LET th == threads[p]
  IN /\ th.pc = "wlocked"
     /\ cache' = IF th.op = "Set"
                 THEN CacheSet(cache, th.key, th.value, now)
                 ELSE CacheDelete(cache, th.key)
     /\ written' = WrittenAfter(written, th.op, th.key, th.value, now)
     /\ threads' = [threads EXCEPT ![p] = [@ EXCEPT !.pc = "wrote", !.start = now]]
     /\ UNCHANGED <<cb, cacheHits, cacheMisses, externalCalls,
                    externalCallDuration, now, calls, last, leadFails,
                    probeStreak, circuitBreakerState, fetches, failRun,
                    probed, rejections, mu, serial>>

\* Set(key, value) or Delete(key): c.mu.Unlock() and return
WUnlock(p) ==
  /\ threads[p].pc = "wrote"
  /\ mu' = [mu EXCEPT !.writers = @ \ {p}]
  /\ threads' = [threads EXCEPT ![p].pc = "done"]
  /\ UNCHANGED <<cb, cache, cacheHits, cacheMisses, externalCalls,
                 externalCallDuration, now, calls, last, leadFails,
                 probeStreak, circuitBreakerState, fetches, written,
                 failRun, probed, rejections, serial>>

NextCacheConc ==
  \/ \E p \in Procs : RLock(p)
  \/ \E p \in Procs : Read(p)
  \/ \E p \in Procs : RUnlock(p)
  \/ \E p \in Procs : WLock(p)
  \/ \E p \in Procs : Write(p)
  \/ \E p \in Procs : WUnlock(p)
  \/ Tick

SpecCacheConc == InitCache /\ [][NextCacheConc]_vars

\* ------------------------------------------------------ breaker properties
\* the most recent invocation went through CircuitBreaker.Call
LastCalled == last.op # "none" /\ last.called = 1

\* time elapsed since the last failure when the most recent Call was entered
LastElapsed == Since(last.pre.cb.lastFailureTime, last.pre.now)

\* the most recent Call found the breaker Open with the timeout not elapsed
LastRejectable ==
  LastCalled /\ last.pre.cb.state = StateOpen /\ LastElapsed <= last.pre.cb.timeout

\* the most recent Call found the breaker Open with the timeout elapsed
LastProbe ==
  LastCalled /\ last.pre.cb.state = StateOpen /\ LastElapsed > last.pre.cb.timeout

\* C1: on a fresh breaker with failureThreshold = N, each of the first N
\* Calls with a failing operation invokes it and returns its error, the state
\* is Closed after the first N-1 and Open after the N-th, and the (N+1)-th
\* Call made before the timeout has elapsed is rejected with
\* ErrCircuitBreakerOpen without invoking its operation.
C1_OpensOnThreshold ==
  last.op = "Call" =>
    /\ (leadFails = calls /\ calls <= cb.failureThreshold) =>
         /\ last.invoked = 1
         /\ last.ret = last.fn.err
         /\ cb.state = IF calls < cb.failureThreshold THEN StateClosed ELSE StateOpen
    /\ (calls = cb.failureThreshold + 1 /\ leadFails >= cb.failureThreshold
          /\ LastElapsed <= cb.timeout) =>
         /\ last.ret = ErrCircuitBreakerOpen
         /\ last.invoked = 0

C1_Witness ==
  /\ last.op = "Call"
  /\ cb.failureThreshold = 2
  /\ calls = 3
  /\ leadFails >= 2
  /\ last.pre.cb.state = StateOpen
  /\ last.ret = ErrCircuitBreakerOpen
  /\ last.invoked = 0

\* C2: a Call that finds the breaker Open with elapsed <= timeout returns
\* ErrCircuitBreakerOpen, does not invoke the operation and leaves state,
\* failureCount, successCount and lastFailureTime unchanged.
C2_OpenRejects ==
  LastRejectable =>
    /\ last.ret = ErrCircuitBreakerOpen
    /\ last.invoked = 0
    /\ cb = last.pre.cb

\* the boundary case: exactly timeout has elapsed
C2_Witness ==
  /\ last.op = "Call"
  /\ LastRejectable
  /\ LastElapsed = last.pre.cb.timeout
  /\ last.ret = ErrCircuitBreakerOpen

\* C3: a Call that finds the breaker Open for longer than timeout moves it to
\* HalfOpen with both counters 0 and then invokes the operation exactly once
\* (it is not rejected); the next transition is decided from that outcome.
C3_HalfOpenProbe ==
  LastProbe =>
    /\ last.mid.state = StateHalfOpen
    /\ last.mid.failureCount = 0
    /\ last.mid.successCount = 0
    /\ last.invoked = 1
    /\ last.ret = last.fn.err
    /\ cb = CallHalfOpen(last.mid, last.fn.err, last.end)

C3_Witness ==
  /\ last.op = "Call"
  /\ LastProbe
  /\ last.pre.cb.failureCount > 0
  /\ last.mid.state = StateHalfOpen
  /\ last.invoked = 1

\* C4: successThreshold successful Calls in a row, counted from the entry
\* into HalfOpen, leave the breaker Closed with both counters 0; with
\* successThreshold = 1 the first successful Call after the timeout takes an
\* Open breaker to Closed and invokes the operation exactly once.
C4_ClosesOnSuccessStreak ==
  /\ probeStreak = cb.successThreshold =>
       /\ cb.state = StateClosed
       /\ cb.failureCount = 0
       /\ cb.successCount = 0
  /\ (LastProbe /\ cb.successThreshold = 1 /\ last.fn.err = Nil) =>
       /\ cb.state = StateClosed
       /\ last.invoked = 1

C4_Witness ==
  /\ last.op = "Call"
  /\ cb.successThreshold = 2
  /\ probeStreak = 2
  /\ last.mid.state = StateHalfOpen
  /\ cb.state = StateClosed

\* C5: in HalfOpen any failed Call, whatever failureThreshold is, takes the
\* breaker back to Open.
C5_AnyProbeFailureReopens ==
  (LastCalled /\ last.mid.state = StateHalfOpen /\ last.invoked = 1
     /\ last.fn.err # Nil) =>
    cb.state = StateOpen

C30_ClosedCountsConsecutive ==
  /\ (last.op = "Call" /\ last.mid.state = StateClosed) =>
       /\ last.invoked = 1
       /\ cb.successCount = 0
       /\ IF last.fn.err # Nil
          THEN /\ cb.failureCount = last.mid.failureCount + 1
               /\ cb.state = IF cb.failureCount >= cb.failureThreshold
                             THEN StateOpen ELSE StateClosed
               /\ cb.state = StateOpen => failRun >= cb.failureThreshold
          ELSE cb.failureCount = 0 /\ cb.state = StateClosed
  /\ cb.state = StateClosed =>
       (cb.failureCount = failRun /\ failRun < cb.failureThreshold)

\* failures and successes alternate and the breaker is still Closed after
\* failureThreshold failures in all
C30_Witness ==
  /\ last.op = "Call"
  /\ cb.failureThreshold = 2
  /\ calls >= 3
  /\ last.pre.cb.state = StateClosed
  /\ last.pre.cb.failureCount = 0
  /\ last.fn.err # Nil
  /\ leadFails = 1
  /\ cb.state = StateClosed
  /\ cb.failureCount = 1

\* C6: a Call invokes its operation at most once; when it invokes it (Closed
\* or HalfOpen path) it returns the operation's result unchanged; it returns
\* ErrCircuitBreakerOpen only when it did not invoke the operation.
C6_CallContract ==
  last.op = "Call" =>
    /\ last.invoked \in {0, 1}
    /\ last.mid.state \in {StateClosed, StateHalfOpen} =>
         (last.invoked = 1 /\ last.ret = last.fn.err)
    /\ last.invoked = 1 => last.ret = last.fn.err
    /\ last.ret = ErrCircuitBreakerOpen => last.invoked = 0

C6_Witness ==
  /\ last.op = "Call"
  /\ last.mid.state = StateHalfOpen
  /\ last.invoked = 1
  /\ last.fn.err = "other error"
  /\ last.ret = "other error"

\* ------------------------------------------------------- client properties
LastRequest == last.op = "GetStockData"

\* what Cache.Get answered at the start of the most recent GetStockData
LastLookup ==
  CacheGet(last.pre.cache, CacheKey(last.symbol, last.ndays), last.pre.now)

\* C7: with a fresh cache, a Closed breaker and a succeeding raw fetch, two
\* GetStockData calls in sequence for the same (symbol, ndays), the second
\* within the TTL window of the first, invoke the raw fetch exactly once: the
\* first misses and fetches, the second returns the cached value.
C7_Step ==
  (/\ LastRequest
   /\ last.pre.cache.items = EmptyMap
   /\ last.pre.cb.state = StateClosed
   /\ last.fn.err = Nil
   /\ calls' = calls + 1
   /\ last'.op = "GetStockData"
   /\ last'.symbol = last.symbol
   /\ last'.ndays = last.ndays
   /\ last'.pre.now < last.end + cache.ttl)
  =>
  (/\ ~last.found
   /\ last.invoked = 1
   /\ externalCalls = last.pre.externalCalls + 1
   /\ last'.found
   /\ last'.invoked = 0
   /\ externalCalls' = externalCalls
   /\ last'.ret = Nil
   /\ last'.value = last.value)

C7_CacheThenFetch == [][C7_Step]_vars

C7_Witness ==
  /\ LastRequest
  /\ calls = 2
  /\ last.pre.cacheMisses = 1
  /\ last.pre.externalCalls = 1
  /\ last.found
  /\ last.invoked = 0
  /\ externalCalls = 1
  /\ cacheHits = 1

\* C8: when the breaker is Open with the timeout not elapsed and the key has
\* no unexpired cache entry, GetStockData returns the breaker-open error,
\* does not invoke the raw fetch and leaves the cache contents unchanged.
C8_BreakerPropagation ==
  (LastRequest /\ ~LastLookup.found /\ LastRejectable) =>
    /\ last.ret = ErrCircuitBreakerOpen
    /\ last.value = NilData
    /\ last.invoked = 0
    /\ externalCalls = last.pre.externalCalls
    /\ cache = last.pre.cache

C8_Witness ==
  /\ LastRequest
  /\ ~LastLookup.found
  /\ LastRejectable
  /\ last.ret = ErrCircuitBreakerOpen

\* C9: whenever Cache.Get finds an unexpired entry for the key, GetStockData
\* increments the cache-hit counter and not the cache-miss counter, returns
\* the cached value with a nil error, and neither calls the breaker nor
\* invokes the raw fetch.
C9_CacheHitPath ==
  (LastRequest /\ LastLookup.found) =>
    /\ cacheHits = last.pre.cacheHits + 1
    /\ cacheMisses = last.pre.cacheMisses
    /\ last.value = LastLookup.value
    /\ last.ret = Nil
    /\ last.called = 0
    /\ last.invoked = 0
    /\ cb = last.pre.cb
    /\ externalCalls = last.pre.externalCalls

\* a hit served while the breaker is Open
C9_Witness ==
  /\ LastRequest
  /\ LastLookup.found
  /\ last.pre.cb.state = StateOpen
  /\ cacheHits = last.pre.cacheHits + 1
  /\ last.value # NilData

\* C10: when the raw fetch invoked by GetStockData returns an error,
\* GetStockData returns that same error and performs no Cache.Set, so a
\* following GetStockData for the same key is again a cache miss.
C10_FailedFetchNotCached ==
  (LastRequest /\ last.invoked = 1 /\ last.fn.err # Nil) =>
    /\ last.ret = last.fn.err
    /\ last.value = NilData
    /\ last.sets = 0
    /\ cache = last.pre.cache
    /\ \A t \in now..MaxTime :
         ~CacheGet(cache, CacheKey(last.symbol, last.ndays), t).found

\* the fetch failed for a key that held an expired entry
C10_Witness ==
  /\ LastRequest
  /\ last.invoked = 1
  /\ last.fn.err = "no time series data returned"
  /\ last.ret = "no time series data returned"
  /\ CacheKey(last.symbol, last.ndays) \in DOMAIN cache.items

\* C11: when the raw fetch succeeds, GetStockData stores exactly the fetched
\* value under the request's cache key, with a fresh expiration, and returns
\* that same value with a nil error.
C11_FetchedValueCachedAndReturned ==
  (LastRequest /\ last.invoked = 1 /\ last.fn.err = Nil) =>
    LET key == CacheKey(last.symbol, last.ndays)
    IN /\ last.fetched # NilData
       /\ last.ret = Nil
       /\ last.value = last.fetched
       /\ last.sets = 1
       /\ key \in DOMAIN cache.items
       /\ cache.items[key] =
            [Value |-> last.fetched, Expiration |-> last.end + cache.ttl]
       /\ \A k \in DOMAIN cache.items \ {key} :
            k \in DOMAIN last.pre.cache.items
              /\ cache.items[k] = last.pre.cache.items[k]

\* a fetched value replaces a different one held for the same key
C11_Witness ==
  /\ LastRequest
  /\ last.invoked = 1
  /\ last.fn.err = Nil
  /\ CacheKey(last.symbol, last.ndays) \in DOMAIN last.pre.cache.items
  /\ last.pre.cache.items[CacheKey(last.symbol, last.ndays)].Value # last.fetched
  /\ last.value = last.fetched

\* the entry the cache held for the requested key when the request started
LastEntry == last.pre.cache.items[CacheKey(last.symbol, last.ndays)]

LastHeld == CacheKey(last.symbol, last.ndays) \in DOMAIN last.pre.cache.items

\* C15: while the upstream is failing and the breaker is Open, a
\* GetStockData call for a key with an unexpired cache entry returns the
\* cached data with a nil error, and the breaker stays as it was.
C15_ServeFromCacheDuringOutage ==
  (/\ LastRequest
   /\ last.pre.cb.state = StateOpen
   /\ last.fn.err # Nil
   /\ LastHeld
   /\ last.pre.now < LastEntry.Expiration) =>
    /\ last.ret = Nil
    /\ last.value = LastEntry.Value
    /\ last.value.type = "*StockData"
    /\ cb = last.pre.cb
    /\ cache = last.pre.cache

\* the request would have been rejected had the entry not been there
C15_Witness ==
  /\ LastRequest
  /\ last.pre.cb.state = StateOpen
  /\ ~TimeoutElapsed(last.pre.cb, last.pre.now)
  /\ last.fn.err # Nil
  /\ LastHeld
  /\ last.pre.now < LastEntry.Expiration
  /\ last.ret = Nil
  /\ last.value = LastEntry.Value
  /\ cb.state = StateOpen

\* the cache held an expired entry for the requested key at the start
LastExpired == LastHeld /\ last.pre.now >= LastEntry.Expiration

\* C16: once a key's cache entry has expired, GetStockData never returns the
\* expired value: any value returned was fetched by this call; a rejecting
\* Open breaker yields ErrCircuitBreakerOpen and a failing fetch yields the
\* fetch error, both with no value.
C16_NoStaleFallback ==
  (LastRequest /\ LastExpired) =>
    /\ ~last.found
    /\ last.called = 1
    /\ last.value # NilData =>
         (last.invoked = 1 /\ last.fn.err = Nil /\ last.value = last.fetched)
    /\ LastRejectable =>
         (last.ret = ErrCircuitBreakerOpen /\ last.value = NilData)
    /\ (last.invoked = 1 /\ last.fn.err # Nil) =>
         (last.ret = last.fn.err /\ last.value = NilData)

\* a rejected request for a key whose expired entry is still in the map
C16_Witness ==
  /\ LastRequest
  /\ LastExpired
  /\ LastRejectable
  /\ last.ret = ErrCircuitBreakerOpen
  /\ last.value = NilData
  /\ LastEntry.Value # NilData

\* C20: the external-calls counter never decreases and equals the number of
\* fetchStockData invocations that have returned, successful or failed, with
\* one duration observation per invocation; a request that is rejected by
\* the breaker or served from the cache leaves both unchanged.
C20_FetchAccounting ==
  /\ externalCalls = fetches
  /\ externalCallDuration = fetches
  /\ LastRequest =>
       /\ externalCalls = last.pre.externalCalls + last.invoked
       /\ externalCallDuration = last.pre.externalCallDuration + last.invoked
       /\ (last.ret = ErrCircuitBreakerOpen \/ last.found) =>
            (/\ last.invoked = 0
             /\ externalCalls = last.pre.externalCalls
             /\ externalCallDuration = last.pre.externalCallDuration)

\* a failed fetch is counted after an earlier counted fetch
C20_Witness ==
  /\ LastRequest
  /\ last.invoked = 1
  /\ last.fn.err # Nil
  /\ last.pre.externalCalls >= 1
  /\ externalCalls = last.pre.externalCalls + 1
  /\ externalCallDuration = externalCalls

\* the client's metrics
Metrics ==
  [cacheHits |-> cacheHits, cacheMisses |-> cacheMisses,
   externalCalls |-> externalCalls,
   externalCallDuration |-> externalCallDuration,
   circuitBreakerState |-> circuitBreakerState]

\* the metrics the last request changed
LastEvents == {m \in DOMAIN Metrics : Metrics[m] # last.pre[m]}

\* C17: when the data is not in the cache and the breaker is open, the stock
\* endpoints respond with 503 Service Unavailable, a status other than the
\* one written for a generic fetch failure.
C17_BreakerOpenIs503 ==
  (LastRequest /\ ~last.found /\ last.ret = ErrCircuitBreakerOpen) =>
    /\ last.status = StatusServiceUnavailable
    /\ \A e \in OpErrors : last.status # stockHandler(e)

\* C18: after every GetStockData call the circuit-breaker state gauge equals
\* the code of the breaker's current state.
C18_GaugeTracksBreaker ==
  LastRequest => circuitBreakerState = GetState(cb)

\* C19: every breaker-open rejection and every failed fetch inside
\* GetStockData changes a metric of its own, besides the cache-hit,
\* cache-miss, fetch-attempt and fetch-duration metrics.
C19_FailuresReported ==
  (/\ LastRequest
   /\ \/ last.ret = ErrCircuitBreakerOpen
      \/ last.invoked = 1 /\ last.fn.err # Nil) =>
    LastEvents \ {"cacheHits", "cacheMisses", "externalCalls",
                  "externalCallDuration"} # {}

C22_ErrorsNotSuppressed ==
  LastRequest =>
    /\ last.ret = Nil <=>
         (last.called = 0 \/ (last.invoked = 1 /\ last.fn.err = Nil))
    /\ last.ret = Nil => last.value # NilData
    /\ (last.called = 1 /\ last.invoked = 0) =>
         (last.ret = ErrCircuitBreakerOpen /\ last.value = NilData)
    /\ (last.invoked = 1 /\ last.fn.err # Nil) =>
         (last.ret = last.fn.err /\ last.value = NilData)

\* a failed probe of a HalfOpen breaker is reported to the caller
C22_Witness ==
  /\ LastRequest
  /\ last.mid.state = StateHalfOpen
  /\ last.invoked = 1
  /\ last.fn.err # Nil
  /\ last.ret = last.fn.err
  /\ last.value = NilData

\* C28: after failureThreshold GetStockData calls in a row whose fetch
\* failed, for any symbols, a GetStockData call for another symbol that is
\* not cached, made before the timeout has elapsed, fails with
\* ErrCircuitBreakerOpen and does not invoke the fetch.
C28_Step ==
  (/\ calls' = calls + 1
   /\ LastRequest
   /\ leadFails = calls
   /\ calls = cb.failureThreshold
   /\ last'.symbol # last.symbol
   /\ last'.key \notin DOMAIN cache.items
   /\ Since(cb.lastFailureTime, now) <= cb.timeout) =>
    /\ last'.ret = ErrCircuitBreakerOpen
    /\ last'.invoked = 0
    /\ last'.value = NilData
    /\ externalCalls' = externalCalls
    /\ cb' = cb

C28_OneBreakerForAllKeys == [][C28_Step]_vars

\* the request after two failed fetches is rejected although the upstream
\* would have answered it
C28_Witness ==
  /\ LastRequest
  /\ calls = cb.failureThreshold + 1
  /\ leadFails = cb.failureThreshold
  /\ cb.failureThreshold = 2
  /\ last.fn.err = Nil
  /\ last.pre.cache.items = EmptyMap
  /\ last.symbol # <<"M">>
  /\ last.ret = ErrCircuitBreakerOpen
  /\ last.invoked = 0

\* -------------------------------------------------- cache properties
LastGet == last.op = "Get"

\* the latest Set or Delete of the key of the last operation
LastWritten == written[last.key]

\* C12: a Get issued after Set(k, v), with no Set or Delete of k in between,
\* returns (v, true) while less than ttl has elapsed since the Set, and
\* found = false with no value once now >= expiresAt, exactly as a Get of a
\* key that was never set.
C12_CacheTTL ==
  LastGet =>
    IF last.key \notin DOMAIN written
    THEN ~last.found /\ last.value = NilData
    ELSE LastWritten.op = "Set" =>
           IF last.end < LastWritten.at + cache.ttl
           THEN last.found /\ last.value = LastWritten.Value
           ELSE ~last.found /\ last.value = NilData

\* a Get exactly at the expiration instant of an entry
C12_Witness ==
  /\ LastGet
  /\ last.key \in DOMAIN written
  /\ LastWritten.op = "Set"
  /\ cache.ttl = MaxCacheTTL
  /\ last.end = LastWritten.at + cache.ttl
  /\ ~last.found

\* C13: Set(k, v1) followed by Set(k, v2) leaves the entry (v2, time of the
\* second Set + ttl): a later Get(k) returns (v2, true) for a full ttl after
\* the second Set, also when the first entry would already have expired.
C13_CacheOverwrite ==
  (/\ last.op \in {"Set", "Get"}
   /\ last.key \in DOMAIN written
   /\ LastWritten.op = "Set"
   /\ LastWritten.over # NoSet) =>
    /\ last.key \in DOMAIN cache.items
    /\ cache.items[last.key] =
         [Value |-> LastWritten.Value,
          Expiration |-> LastWritten.at + cache.ttl]
    /\ (LastGet /\ last.end < LastWritten.at + cache.ttl) =>
         (last.found /\ last.value = LastWritten.Value)

\* a Get sees the second value at a time the first entry had expired
C13_Witness ==
  /\ LastGet
  /\ last.key \in DOMAIN written
  /\ LastWritten.op = "Set"
  /\ LastWritten.over # NoSet
  /\ LastWritten.overValue # LastWritten.Value
  /\ LastWritten.over < LastWritten.at
  /\ last.end >= LastWritten.over + cache.ttl
  /\ last.found
  /\ last.value = LastWritten.Value

\* C14: after Delete(k), Get(k) returns found = false until the next
\* Set(k, _), whether or not the deleted entry had expired, and Delete
\* changes the entry of no other key.
C14_CacheDelete ==
  /\ (LastGet /\ last.key \in DOMAIN written /\ LastWritten.op = "Delete") =>
       (~last.found /\ last.value = NilData)
  /\ last.op = "Delete" =>
       /\ last.key \notin DOMAIN cache.items
       /\ DOMAIN cache.items = DOMAIN last.pre.cache.items \ {last.key}
       /\ \A k \in DOMAIN cache.items :
            cache.items[k] = last.pre.cache.items[k]

\* a Get misses a deleted entry that had not expired, another key is held
C14_Witness ==
  /\ LastGet
  /\ last.key \in DOMAIN written
  /\ LastWritten.op = "Delete"
  /\ LastWritten.over # NoSet
  /\ last.end < LastWritten.over + cache.ttl
  /\ ~last.found
  /\ \E k \in DOMAIN cache.items : CacheGet(cache, k, now).found


\* ------------------------------------------ concurrency properties
\* the goroutines whose wrapped operation is executing
Running == {p \in Procs : threads[p].pc = "fn"}

AllDone == \A p \in Procs : threads[p].pc = "done"

\* C23: with any number of concurrent Calls on one breaker, a Call's check,
\* operation and bookkeeping are one atomic step with respect to the other
\* Calls: at most one wrapped operation is executing at any instant, and the
\* breaker and every Call's result are those of the Calls taken one at a
\* time.
C23_BreakerAtomicity ==
  /\ Cardinality(Running) <= 1
  /\ Cardinality(mu.cb) <= 1
  /\ Running \subseteq mu.cb
  /\ Running = {} => cb = serial
  /\ \A p \in Procs :
       threads[p].pc \in {"return", "done"} => threads[p].ret = threads[p].exp

\* three Calls are done: one succeeded, one failed and opened the breaker,
\* one was rejected
C23_Witness ==
  /\ AllDone
  /\ cb.state = StateOpen
  /\ \E p, q, r \in Procs :
       /\ threads[p].invoked = 1 /\ threads[p].ret = Nil
       /\ threads[q].invoked = 1 /\ threads[q].ret # Nil
       /\ threads[r].invoked = 0 /\ threads[r].ret = ErrCircuitBreakerOpen

\* C24: while the timeout has never elapsed, any interleaving of concurrent
\* succeeding and failing Calls on a fresh breaker leaves it Closed or Open,
\* never HalfOpen.
C24_NeverHalfOpenWithinTimeout ==
  now <= cb.timeout => cb.state \in {StateClosed, StateOpen}

\* the Calls are done at the last instant before the timeout elapses
C24_Witness ==
  /\ AllDone
  /\ now = cb.timeout
  /\ cb.state = StateOpen
  /\ cb.lastFailureTime = 0
  /\ \E p, q \in Procs : threads[p].ret = Nil /\ threads[q].err # Nil

\* C25: when succeeding Calls and more than failureThreshold failing Calls
\* run concurrently on a fresh breaker whose timeout does not elapse, at
\* least one succeeding Call returns nil, in every interleaving.
C25_SomeSuccessReturnsNil ==
  (/\ AllDone
   /\ now <= cb.timeout
   /\ Cardinality({p \in Procs : threads[p].err # Nil}) > cb.failureThreshold
   /\ \E p \in Procs : threads[p].err = Nil) =>
    \E p \in Procs : threads[p].err = Nil /\ threads[p].ret = Nil


\* C26: GetStockData calls running concurrently are not coalesced: each one
\* that missed the cache and finds the breaker Closed invokes the fetch,
\* whatever the others have fetched or cached meanwhile, and each one whose
\* fetch succeeds returns the fetched value with a nil error.
C26_NoCoalescing ==
  \A p \in Clients :
    LET th == threads[p]
    IN /\ (th.pc \in {"called", "done"} /\ ~th.found
            /\ th.branch = StateClosed) => th.invoked = 1
       /\ (th.pc = "done" /\ th.invoked = 1 /\ th.err = Nil) =>
            /\ th.ret = Nil
            /\ th.value.type = "*StockData"
            /\ th.value.Symbol = th.req[1]

\* two calls for one key against a cold cache both missed, both fetched
\* within one TTL window and both returned data
C26_Witness ==
  \E p, q \in Clients :
    /\ p # q
    /\ threads[p].pc = "done" /\ threads[q].pc = "done"
    /\ threads[p].key = threads[q].key
    /\ ~threads[p].found /\ ~threads[q].found
    /\ threads[p].invoked = 1 /\ threads[q].invoked = 1
    /\ threads[p].start <= threads[q].start
    /\ threads[q].start < threads[p].start + cache.ttl
    /\ threads[p].ret = Nil /\ threads[q].ret = Nil
    /\ threads[p].value # NilData /\ threads[q].value # NilData
    /\ externalCalls = 2
    /\ cacheMisses = 2


\* C27: under concurrent Get, Set and Delete calls a write never overlaps a
\* read or another write, and every Get returns found = false or the value
\* of the latest Set of its key, unexpired, as of the instant of its read.
C27_CacheThreadSafety ==
  /\ Cardinality(mu.writers) <= 1
  /\ mu.writers # {} => mu.readers = {}
  /\ \A p \in Procs :
       LET th == threads[p]
       IN (th.op = "Get" /\ th.pc \in {"read", "done"}) =>
            IF th.found
            THEN /\ th.seen.op = "Set"
                 /\ th.value = th.seen.Value
                 /\ th.start < th.seen.at + cache.ttl
            ELSE th.value = NilData

\* two readers hold the lock together; one has read the value that the third
\* goroutine set
C27_Witness ==
  \E p, q, r \in Procs :
    /\ p # q
    /\ {p, q} \subseteq mu.readers
    /\ threads[p].pc = "read"
    /\ threads[p].found
    /\ threads[r].op = "Set"
    /\ threads[r].pc = "done"
    /\ threads[p].value = threads[r].value


\* C31: successCount counts the successes in a row: a failed Call in HalfOpen
\* that leaves the breaker HalfOpen resets successCount to 0, and a Call takes
\* the breaker from HalfOpen to Closed only as the last of successThreshold
\* successful Calls with no failure between them.
C31_HalfOpenConsecutiveSuccesses ==
  /\ (last.op = "Call" /\ last.mid.state = StateHalfOpen /\ last.fn.err # Nil
        /\ cb.state = StateHalfOpen) =>
       cb.successCount = 0
  /\ (last.op = "Call" /\ last.mid.state = StateHalfOpen
        /\ cb.state = StateClosed) =>
       /\ Len(probed) >= cb.successThreshold
       /\ \A i \in (Len(probed) - cb.successThreshold + 1) .. Len(probed) :
            probed[i] = Nil


\* C32: between entering HalfOpen and leaving it the breaker invokes the
\* operation at most failureThreshold + successThreshold - 1 times, whatever
\* the mix of successes and failures: while it is HalfOpen every invocation
\* since the entry is counted by one of the two counters, neither of which has
\* reached its threshold, and the invocation that reaches one leaves HalfOpen.
C32_HalfOpenAdmitsAtMost ==
  /\ Len(probed) <= cb.failureThreshold + cb.successThreshold - 1
  /\ cb.state = StateHalfOpen =>
       /\ Len(probed) = cb.failureCount + cb.successCount
       /\ cb.failureCount < cb.failureThreshold
       /\ cb.successCount < cb.successThreshold
  /\ (last.op = "Call" /\ last.mid.state = StateHalfOpen) => last.invoked = 1

\* the breaker leaves HalfOpen with the last invocation the bound allows,
\* after both a success and a failure
C32_Witness ==
  /\ last.op = "Call"
  /\ last.mid.state = StateHalfOpen
  /\ cb.state # StateHalfOpen
  /\ Len(probed) = cb.failureThreshold + cb.successThreshold - 1
  /\ \E i, j \in 1..Len(probed) : probed[i] = Nil /\ probed[j] # Nil


\* the steps of the state machine: at the top of Call, and after fn()
LazySteps == {<<StateOpen, StateHalfOpen>>}
OutcomeSteps == {<<StateClosed, StateOpen>>, <<StateHalfOpen, StateClosed>>,
                 <<StateHalfOpen, StateOpen>>}

\* C36: the breaker starts Closed and its state changes only inside Call and
\* only along Closed -> Open, Open -> HalfOpen, HalfOpen -> Closed and
\* HalfOpen -> Open; a Closed breaker never becomes HalfOpen, and an Open one
\* reaches Closed only through HalfOpen and an operation that succeeded.
C36_LegalTransitions ==
  /\ calls = 0 => cb.state = StateClosed
  /\ cb.state \in {StateClosed, StateOpen, StateHalfOpen}
  /\ last.op = "Call" =>
       /\ \/ last.mid.state = last.pre.cb.state
          \/ <<last.pre.cb.state, last.mid.state>> \in LazySteps
       /\ \/ cb.state = last.mid.state
          \/ /\ <<last.mid.state, cb.state>> \in OutcomeSteps
             /\ last.invoked = 1
       /\ last.pre.cb.state = StateClosed => cb.state # StateHalfOpen
       /\ (last.pre.cb.state = StateOpen /\ cb.state = StateClosed) =>
            /\ last.mid.state = StateHalfOpen
            /\ last.invoked = 1
            /\ last.fn.err = Nil
       /\ (last.mid.state = StateHalfOpen /\ cb.state = StateClosed) =>
            last.fn.err = Nil
       /\ cb.state = StateOpen /\ last.mid.state # StateOpen =>
            last.fn.err # Nil

\* one Call takes an Open breaker through HalfOpen to Closed
C36_Witness ==
  /\ last.op = "Call"
  /\ last.pre.cb.state = StateOpen
  /\ last.mid.state = StateHalfOpen
  /\ cb.state = StateClosed
  /\ last.fn.err = Nil

\* C38: between Calls 0 <= failureCount <= failureThreshold and
\* 0 <= successCount < successThreshold; failureCount = failureThreshold
\* exactly when the state is Open, and successCount = 0 whenever it is Closed.
C38_CounterInvariant ==
  /\ 0 <= cb.failureCount
  /\ cb.failureCount <= cb.failureThreshold
  /\ 0 <= cb.successCount
  /\ cb.successCount < cb.successThreshold
  /\ (cb.failureCount = cb.failureThreshold) <=> (cb.state = StateOpen)
  /\ cb.state = StateClosed => cb.successCount = 0

\* the breaker re-opened from HalfOpen after a success: Open with
\* failureCount at the threshold and successCount above 0
C38_Witness ==
  /\ last.op = "Call"
  /\ last.mid.state = StateHalfOpen
  /\ cb.state = StateOpen
  /\ cb.failureCount = cb.failureThreshold
  /\ cb.successCount > 0


\* the most recent invocation was GetState or GetMetrics
LastInspect == last.op \in {"GetState", "GetMetrics"}

\* the state the most recent GetState or GetMetrics reported
LastReported == IF last.op = "GetState" THEN last.ret ELSE last.ret[1]

\* C33: GetState and GetMetrics change nothing in the breaker and report its
\* fields as they are; in particular they report Open after the timeout has
\* elapsed, until a Call arrives, and the breaker is still Open afterwards:
\* only Call performs the transition to HalfOpen.
C33_IntrospectionReadOnly ==
  LastInspect =>
    /\ cb = last.pre.cb
    /\ LastReported = last.pre.cb.state
    /\ last.op = "GetMetrics" =>
         last.ret = <<last.pre.cb.state, last.pre.cb.failureCount,
                      last.pre.cb.successCount>>
    /\ TimeoutElapsed(last.pre.cb, last.pre.now) =>
         /\ LastReported = StateOpen
         /\ cb.state = StateOpen
         /\ CallResult(cb, [err |-> Nil, dur |-> 0], now).mid.state = StateHalfOpen

\* GetMetrics reports Open although the timeout elapsed before it was called
C33_Witness ==
  /\ last.op = "GetMetrics"
  /\ TimeoutElapsed(last.pre.cb, last.pre.now)
  /\ last.ret[1] = StateOpen
  /\ cb.state = StateOpen


\* while a wrapped operation has not returned, no goroutine but the one
\* running it takes a step
C34_Step ==
  Running # {} =>
    /\ mu.cb = Running
    /\ \A q \in Procs \ Running : threads'[q] = threads[q]
    /\ cb' = cb \/ \E p \in Running : threads'[p].pc = "return"

\* C34: from the moment fn() is invoked until it returns no other Call
\* (not even one that would be rejected), GetState or GetMetrics gets the
\* mutex, so none of them returns and the breaker does not change.
C34_HungOperationStalls == [][C34_Step]_vars

\* an operation has been running for two ticks while one goroutine waits;
\* another had inspected the breaker before
C34_Witness ==
  \E p \in Running, q \in Procs, r \in Procs :
    /\ now >= threads[p].start + 2
    /\ threads[q].pc = "idle"
    /\ threads[r].op \in {"GetState", "GetMetrics"}
    /\ threads[r].pc = "done"


\* the breaker is Closed and admits Calls
Recovered ==
  /\ cb.state = StateClosed
  /\ last.op = "Call"
  /\ last.invoked = 1
  /\ last.ret = Nil
  /\ \A fn \in FnOutcomes : CallResult(cb, fn, now).invoked = 1

\* C35: once every operation succeeds, with time advancing and Calls
\* arriving, an Open breaker eventually is Closed, and from then on stays
\* Closed and every Call invokes its operation.
C35_AutomaticRecovery == (cb.state = StateOpen) ~> [](Recovered)

\* the breaker closed after successThreshold = 2 successful probes and has
\* admitted a Call since
C35_Witness ==
  /\ Recovered
  /\ last.pre.cb.state = StateClosed
  /\ cb.successThreshold = 2
  /\ Len(probed) = 2


\* C37: the cache key is a function of (symbol, ndays), and two requests
\* that differ in symbol or in ndays get different keys, also when a symbol
\* contains the separator.
C37_KeyCollisionFree ==
  \A p \in 1..2, q \in 1..2 :
    (threads[p].pc = "keyed" /\ threads[q].pc = "keyed") =>
      (threads[p].key = threads[q].key) <=> (threads[p].req = threads[q].req)

\* the keys of ("M_1", 1) and ("M", 11) have been computed
C37_Witness ==
  /\ threads[1].pc = "keyed"
  /\ threads[2].pc = "keyed"
  /\ threads[1].req = <<<<"M", "_", "1">>, 1>>
  /\ threads[2].req = <<<<"M">>, 11>>
  /\ threads[1].key = <<"M", "_", "1", "_", "1">>
  /\ threads[2].key = <<"M", "_", "1", "1">>


\* C39: every completed GetStockData increments exactly one of the hit and
\* the miss counter, so hits + misses is the number of completed calls; every
\* miss either invokes fetchStockData once or is rejected by the breaker, so
\* misses is the number of fetch invocations plus the number of rejections.
C39_HitMissAccounting ==
  /\ cacheHits + cacheMisses = calls
  /\ cacheMisses = fetches + rejections
  /\ LastRequest =>
       /\ cacheHits + cacheMisses
            = last.pre.cacheHits + last.pre.cacheMisses + 1
       /\ cacheHits = last.pre.cacheHits + 1 <=> last.called = 0
       /\ last.called = 1 =>
            (last.invoked = 0 <=> last.ret = ErrCircuitBreakerOpen)

\* a miss that was rejected after a miss that fetched
C39_Witness ==
  /\ LastRequest
  /\ last.called = 1
  /\ last.invoked = 0
  /\ rejections >= 1
  /\ fetches >= 1
  /\ cacheMisses = fetches + rejections


\* some request would be served from the cache now
Cached ==
  \E req \in Requests :
    ServedFromCache(CacheGet(cache, CacheKey(req[1], req[2]), now))

\* GetStockData by p finds its entry and returns, leaving the breaker and
\* its mutex alone
HitReturns(p) ==
  /\ Lookup(p)
  /\ threads'[p].pc = "done"
  /\ threads'[p].found
  /\ mu' = mu
  /\ cb' = cb

\* C40: a GetStockData that finds an unexpired entry returns it without
\* taking the breaker's mutex, also while another caller's fetch is in
\* progress inside Call; a caller served from the cache never entered Call.
C40_HitsNotBlockedByBreaker ==
  \A p \in Clients :
    /\ (threads[p].pc = "idle" /\ Cached) => ENABLED HitReturns(p)
    /\ (threads[p].pc = "done" /\ threads[p].found) =>
         /\ threads[p].invoked = 0
         /\ threads[p].ret = Nil
         /\ threads[p].value # NilData
         /\ p \notin mu.cb

\* a hit has been counted since the other caller's fetch began, and that
\* fetch is still in progress
C40_Witness ==
  \E p \in Clients, q \in Clients :
    /\ threads[q].pc = "fetching"
    /\ mu.cb = {q}
    /\ threads[p].pc = "done"
    /\ threads[p].found
    /\ cacheHits > threads[q].seen

====
